---- MODULE Spec2Model ----
(***************************************************************************)
(* Model of the coin database of src/src/txdb.cpp (CCoinsViewDB): the      *)
(* ordered key-value store with its primary coin records, the secondary    *)
(* account / bind-plotter / point / staking indices, the BatchWrite commit *)
(* protocol with its head-blocks recovery marker, and the staking pool     *)
(* epoch snapshot that BatchWrite runs before its final chunk.             *)
(*                                                                         *)
(* Hashes, account ids and outpoints are small integers; 0 is the null     *)
(* hash / null account id.  Amounts are small integers.  The size estimate *)
(* of a batch is the number of put/erase operations it holds.              *)
(***************************************************************************)
EXTENDS Integers, Sequences, FiniteSets, TLC

VARIABLES
    db,          \* the LevelDB store: a function from the keys present to their values
    pc,          \* position of the (single) writer: idle, loop, final, done, crashed, failed,
                 \* asserted; queried after a balance query; the phases of Upgrade
    mapCoins,    \* BatchWrite: the entries of the delta not yet iterated (erased as it goes)
    batch,       \* BatchWrite: the pending CDBBatch, a sequence of put/erase operations
    hashBlock,   \* BatchWrite: the new tip passed by the caller
    old_tip,     \* BatchWrite: the previous tip determined at entry
    ret,         \* BatchWrite: the value returned to the caller ("none" while no call returned)
    delta,       \* the full delta handed to the commit in progress (the caller can regenerate it)
    db0,         \* the store as it was when the first attempt of the commit in progress began
    flushed,     \* number of partial chunks physically written by the call in progress
    interrupts,  \* number of interrupted attempts of the commit in progress
    ops,         \* the outpoints the caller's deltas are drawn from
    batch_size,  \* -dbbatchsize of the running process
    queriedAccountID,  \* GetAccountBalance: the accountID of the last query
    mapModifiedCoins,  \* the overlay of the last query
    nTop,              \* GetTopStakingAccounts: the n of the last query
    cursor,            \* CAccountCoinsViewDBCursor: the account cursor the caller holds
    pcursor,           \* Upgrade: the iterator, the key-value pairs ahead in its view
    fUpgraded,         \* Upgrade: the out-parameter of the last call
    fRequestShutdown   \* ShutdownRequested() of the running process

\* the arguments of the last query
balanceVars == <<queriedAccountID, mapModifiedCoins, nTop, cursor>>

\* the state of the upgrade
upgradeVars == <<pcursor, fUpgraded, fRequestShutdown>>

vars == <<db, pc, mapCoins, batch, hashBlock, old_tip, ret, delta, db0, flushed,
          interrupts, ops, batch_size, balanceVars, upgradeVars>>

-----------------------------------------------------------------------------
(* Bounds of the model *)

\* number of interrupted attempts (simulated crash, write failure) of one commit
MaxInterrupts == 2
\* the block index holds the blocks of heights 1..MaxHeight, one per height
MaxHeight == 5
\* -dbbatchsize, in operations: a chunk is written once the batch holds more than this
DbBatchSize == 4
\* the epoch runs commit the blocks up to the boundary of this epoch
MaxEpoch == 4

-----------------------------------------------------------------------------
(* Identifiers *)

\* uint256() and CAccountID(): the null hash and the null account id
NullHash == 0
NullAccountID == 0

\* block hashes known to the block index; block h has height h and parent h-1
Hashes == 1..MaxHeight

\* the tips the caller commits, the last three blocks of the index: in the base model one
\* below the first epoch boundary, one on it, and one past it
Tips == {h \in Hashes : h > MaxHeight - 3}


\* Consensus::Params of the staking feature, scaled down (regtest: 101 / 10)
consensusParams ==
    [nSaturnActiveHeight |-> 0, nSaturnEpockBlocks |-> 2, SaturnStakingGenesisID |-> 1]

\* The coins that can exist, one per outpoint; owner and payload are fixed at creation.
\*   1: unowned output              2: bind plotter of account 2
\*   3: point 2 -> 3                4: staking deposit 3 -> pool 2
\*   5: pool registration by the staking genesis account for pool 2
\*   6: staking deposit 6 -> pool 2
\*   7: staking deposit 3 -> pool 2 whose lock window ends at height 4
\*   8: staking deposit 6 -> pool 2 whose lock window ends at height 3
\*   9: pool registration by the staking genesis account for pool 4
\*  10: staking deposit 3 -> pool 4
\*  11: staking coin of the genesis account to pool 2 below the registration amount
\*  12: staking deposit 6 -> pool 5, a pool that is never registered
CoinTable ==
    <<[nValue |-> 5, nHeight |-> 1, outAccountID |-> 0, type |-> "None",
       receiverID |-> 0, amount |-> 0, lockBlocks |-> 0, plotterId |-> 0],
      [nValue |-> 1, nHeight |-> 1, outAccountID |-> 2, type |-> "BindPlotter",
       receiverID |-> 0, amount |-> 0, lockBlocks |-> 0, plotterId |-> 9],
      [nValue |-> 2, nHeight |-> 1, outAccountID |-> 2, type |-> "Point",
       receiverID |-> 3, amount |-> 4, lockBlocks |-> 0, plotterId |-> 0],
      [nValue |-> 3, nHeight |-> 1, outAccountID |-> 3, type |-> "Staking",
       receiverID |-> 2, amount |-> 7, lockBlocks |-> 9, plotterId |-> 0],
      [nValue |-> 6, nHeight |-> 1, outAccountID |-> 1, type |-> "Staking",
       receiverID |-> 2, amount |-> 6, lockBlocks |-> 9, plotterId |-> 0],
      [nValue |-> 2, nHeight |-> 1, outAccountID |-> 6, type |-> "Staking",
       receiverID |-> 2, amount |-> 2, lockBlocks |-> 9, plotterId |-> 0],
      [nValue |-> 2, nHeight |-> 2, outAccountID |-> 3, type |-> "Staking",
       receiverID |-> 2, amount |-> 2, lockBlocks |-> 2, plotterId |-> 0],
      [nValue |-> 5, nHeight |-> 1, outAccountID |-> 6, type |-> "Staking",
       receiverID |-> 2, amount |-> 5, lockBlocks |-> 2, plotterId |-> 0],
      [nValue |-> 6, nHeight |-> 1, outAccountID |-> 1, type |-> "Staking",
       receiverID |-> 4, amount |-> 6, lockBlocks |-> 9, plotterId |-> 0],
      [nValue |-> 7, nHeight |-> 1, outAccountID |-> 3, type |-> "Staking",
       receiverID |-> 4, amount |-> 7, lockBlocks |-> 9, plotterId |-> 0],
      [nValue |-> 5, nHeight |-> 1, outAccountID |-> 1, type |-> "Staking",
       receiverID |-> 2, amount |-> 4, lockBlocks |-> 9, plotterId |-> 0],
      [nValue |-> 3, nHeight |-> 1, outAccountID |-> 6, type |-> "Staking",
       receiverID |-> 5, amount |-> 3, lockBlocks |-> 9, plotterId |-> 0]>>

Outpoints == DOMAIN CoinTable

\* the groups of outpoints a run draws its deltas from
Scenarios == {{1, 2}, {3}, {4, 5}}

-----------------------------------------------------------------------------
(* The ordered store: keys are <<prefix, a, b>>, unused positions are 0 *)

DB_BEST_BLOCK == <<"B", 0, 0>>
DB_HEAD_BLOCKS == <<"H", 0, 0>>
CoinEntry(outpoint) == <<"C", 0, outpoint>>
CoinIndexEntry(outpoint, accountID) == <<"c", accountID, outpoint>>
BindPlotterEntry(outpoint, accountID) == <<"r", accountID, outpoint>>
PointSendEntry(outpoint, accountID) == <<"P", accountID, outpoint>>
PointReceiveEntry(outpoint, accountID) == <<"p", accountID, outpoint>>
StakingSendEntry(outpoint, accountID) == <<"S", accountID, outpoint>>
StakingReceiveEntry(outpoint, accountID) == <<"s", accountID, outpoint>>
StakingPoolEntry(epochHash) == <<"T", epochHash, 0>>
StakingPoolUsersEntry(epochHash, poolID) == <<"t", epochHash, poolID>>

IndexPrefixes == {"c", "r", "P", "p", "S", "s"}

EmptyDB == [k \in {} |-> 0]

Exists(d, key) == key \in DOMAIN d

Put(key, value) == [t |-> "W", k |-> key, v |-> value]
Del(key) == [t |-> "E", k |-> key, v |-> 0]

\* one put or erase applied to the store
ApplyOp(d, o) ==
    IF o.t = "W"
    THEN [x \in DOMAIN d \cup {o.k} |-> IF x = o.k THEN o.v ELSE d[x]]
    ELSE [x \in DOMAIN d \ {o.k} |-> d[x]]

RECURSIVE ApplyBatch(_, _)
\* CDBWrapper::WriteBatch on success: the operations of the batch, in order, atomically
ApplyBatch(d, b) ==
    IF b = <<>> THEN d ELSE ApplyBatch(ApplyOp(d, Head(b)), Tail(b))

SizeEstimate(b) == Len(b)

GetBestBlock(d) == IF Exists(d, DB_BEST_BLOCK) THEN d[DB_BEST_BLOCK] ELSE NullHash

GetHeadBlocks(d) == IF Exists(d, DB_HEAD_BLOCKS) THEN d[DB_HEAD_BLOCKS] ELSE <<>>

-----------------------------------------------------------------------------
(* BatchWrite: the operations of one delta entry, lines 447-490 *)

\* the delta entries the caller can hand over for an outpoint
Entry(o, spent, dirty) ==
    [outpoint |-> o, coin |-> CoinTable[o], spent |-> spent, dirty |-> dirty]

\* EraseIndex with the erasure of the receive-side record forgotten
EraseIndex_NoReceive(e) ==
    IF e.coin.outAccountID = NullAccountID THEN <<>>
    ELSE <<Del(CoinIndexEntry(e.outpoint, e.coin.outAccountID))>> \o
         (IF e.coin.type = "BindPlotter"
            THEN <<Del(BindPlotterEntry(e.outpoint, e.coin.outAccountID))>>
          ELSE IF e.coin.type = "Point"
            THEN <<Del(PointSendEntry(e.outpoint, e.coin.outAccountID))>>
          ELSE IF e.coin.type = "Staking"
            THEN <<Del(StakingSendEntry(e.outpoint, e.coin.outAccountID))>>
          ELSE <<>>)

\* EraseIndex with the erasure of a point coin's send record forgotten
EraseIndex_NoPointSend(e) ==
    IF e.coin.outAccountID = NullAccountID THEN <<>>
    ELSE <<Del(CoinIndexEntry(e.outpoint, e.coin.outAccountID))>> \o
         (IF e.coin.type = "BindPlotter"
            THEN <<Del(BindPlotterEntry(e.outpoint, e.coin.outAccountID))>>
          ELSE IF e.coin.type = "Point"
            THEN <<Del(PointReceiveEntry(e.outpoint, e.coin.receiverID))>>
          ELSE IF e.coin.type = "Staking"
            THEN <<Del(StakingSendEntry(e.outpoint, e.coin.outAccountID)),
                   Del(StakingReceiveEntry(e.outpoint, e.coin.receiverID))>>
          ELSE <<>>)

\* the erasures of a spent coin's index records
EraseIndex(e) ==
    IF e.coin.outAccountID = NullAccountID THEN <<>>
    ELSE <<Del(CoinIndexEntry(e.outpoint, e.coin.outAccountID))>> \o
         (IF e.coin.type = "BindPlotter"
            THEN <<Del(BindPlotterEntry(e.outpoint, e.coin.outAccountID))>>
          ELSE IF e.coin.type = "Point"
            THEN <<Del(PointSendEntry(e.outpoint, e.coin.outAccountID)),
                   Del(PointReceiveEntry(e.outpoint, e.coin.receiverID))>>
          ELSE IF e.coin.type = "Staking"
            THEN <<Del(StakingSendEntry(e.outpoint, e.coin.outAccountID)),
                   Del(StakingReceiveEntry(e.outpoint, e.coin.receiverID))>>
          ELSE <<>>)

\* the writes of a live coin's index records
WriteIndex(e) ==
    IF e.coin.outAccountID = NullAccountID THEN <<>>
    ELSE <<Put(CoinIndexEntry(e.outpoint, e.coin.outAccountID), e.coin.nValue)>> \o
         (IF e.coin.type = "BindPlotter"
            THEN <<Put(BindPlotterEntry(e.outpoint, e.coin.outAccountID),
                       <<e.coin.plotterId, e.coin.nHeight>>)>>
          ELSE IF e.coin.type = "Point"
            THEN <<Put(PointSendEntry(e.outpoint, e.coin.outAccountID), e.coin.nValue),
                   Put(PointReceiveEntry(e.outpoint, e.coin.receiverID), e.coin.amount)>>
          ELSE IF e.coin.type = "Staking"
            THEN <<Put(StakingSendEntry(e.outpoint, e.coin.outAccountID), e.coin.nValue),
                   Put(StakingReceiveEntry(e.outpoint, e.coin.receiverID), e.coin.amount)>>
          ELSE <<>>)

\* EntryOps with the test of the dirty flag forgotten
EntryOps_IgnoreDirty(e) ==
    IF e.spent THEN <<Del(CoinEntry(e.outpoint))>> \o EraseIndex(e)
    ELSE <<Put(CoinEntry(e.outpoint), e.coin)>> \o WriteIndex(e)

\* everything one delta entry appends to the batch
EntryOps(e) ==
    IF ~e.dirty THEN <<>>
    ELSE IF e.spent THEN <<Del(CoinEntry(e.outpoint))>> \o EraseIndex(e)
    ELSE <<Put(CoinEntry(e.outpoint), e.coin)>> \o WriteIndex(e)

\* LoopChunk with the size test made right after the primary record's operation
LoopChunk_SplitEntry(b, e, size) ==
    LET eo == EntryOps(e)
        primary == IF eo = <<>> THEN b ELSE Append(b, Head(eo))
        index == IF eo = <<>> THEN <<>> ELSE Tail(eo)
    IN  IF SizeEstimate(primary) > size
        THEN [write |-> primary, keep |-> index]
        ELSE [write |-> <<>>, keep |-> primary \o index]

\* one turn of the loop: the chunk to write physically (empty: none) and the batch kept
LoopChunk(b, e, size) ==
    LET full == b \o EntryOps(e)
    IN  IF SizeEstimate(full) > size
        THEN [write |-> full, keep |-> <<>>]
        ELSE [write |-> <<>>, keep |-> full]

-----------------------------------------------------------------------------
(* Collaborators of the snapshot: block index, subsidy and reward helpers *)

\* LookupBlockIndex: block h has height h, parent h-1, and pays its reward to pool 2
LookupBlockIndex(h) == [hash |-> h, nHeight |-> h, pprev |-> h - 1, minerAccountID |-> 2]

GetInitialStakingPoolAmount(nHeight) == 6

GetBlockStakingPoolSubsidy(nHeight) == 10

CalcStakePoolUserReward(reward, userStake, totalStake) == (reward * userStake) \div totalStake

PROTOCOL_SATURN_STAKING_MIN_WITHDRAWABLE_AMOUNT == 5

\* the deterministic outpoint of a user's withdrawal coin for an epoch
CreateStakePendingCoinOutPoint(epochHash, poolID, userID) ==
    1000 + 100 * epochHash + 10 * poolID + userID

\* Coin(CTxOut(amount, GetScriptForAccountID(userID), ...), nHeight, false)
PendingCoin(amount, userID, nHeight) ==
    [nValue |-> amount, nHeight |-> nHeight, outAccountID |-> userID, type |-> "None",
     receiverID |-> 0, amount |-> 0, lockBlocks |-> 0, plotterId |-> 0]

RECURSIVE SumOf(_, _)
\* the sum of f over the finite set S
SumOf(f, S) ==
    IF S = {} THEN 0
    ELSE LET x == CHOOSE y \in S : TRUE IN f[x] + SumOf(f, S \ {x})

RECURSIVE SumSeq(_, _)
\* the sum of f over the positions of a sequence
SumSeq(f, n) == IF n = 0 THEN 0 ELSE f[n] + SumSeq(f, n - 1)

-----------------------------------------------------------------------------
(* TrySnapshotStakingPoolStatus, lines 960-1149 *)

\* SnapshotTriggered with <= in place of < in the activation test
SnapshotTriggered_OffByOne(nHeight) ==
    ~(nHeight - consensusParams.nSaturnEpockBlocks * 2 <= consensusParams.nSaturnActiveHeight
      \/ nHeight % consensusParams.nSaturnEpockBlocks # 0)

\* the trigger condition of lines 961-964
SnapshotTriggered(nHeight) ==
    ~(nHeight - consensusParams.nSaturnEpockBlocks * 2 < consensusParams.nSaturnActiveHeight
      \/ nHeight % consensusParams.nSaturnEpockBlocks # 0)

StakingReceiveKeys(d) == {k \in DOMAIN d : k[1] = "s"}

\* InvalidStakingCoin without the test of the coin's kind
InvalidStakingCoin_MissingOnly(d) ==
    \E k \in StakingReceiveKeys(d) : ~Exists(d, CoinEntry(k[3]))

\* a staking-receive record whose coin is missing or is no staking coin (line 994)
InvalidStakingCoin(d) ==
    \E k \in StakingReceiveKeys(d) :
        ~Exists(d, CoinEntry(k[3])) \/ d[CoinEntry(k[3])].type # "Staking"

\* order of the keys of one index in the store: account id, then outpoint
KeyLE(k1, k2) == k1[2] < k2[2] \/ (k1[2] = k2[2] /\ k1[3] <= k2[3])

\* GenesisKeys without the test of the registration amount
GenesisKeys_NoMinimum(d) ==
    {k \in StakingReceiveKeys(d) :
        d[CoinEntry(k[3])].outAccountID = consensusParams.SaturnStakingGenesisID}

\* the records of genesis-account coins that meet the registration amount (999-1004)
GenesisKeys(d) ==
    {k \in StakingReceiveKeys(d) :
        LET coin == d[CoinEntry(k[3])]
        IN  /\ coin.outAccountID = consensusParams.SaturnStakingGenesisID
            /\ ~(coin.nValue < GetInitialStakingPoolAmount(coin.nHeight))}

\* enabledPools: pool id -> genesis outpoint, the last record scanned wins
EnabledPools(d) ==
    LET gk == GenesisKeys(d)
        ids == {d[CoinEntry(k[3])].receiverID : k \in gk}
    IN  [p \in ids |->
            LET mine == {k \in gk : d[CoinEntry(k[3])].receiverID = p}
            IN  (CHOOSE k \in mine : \A k2 \in mine : KeyLE(k2, k))[3]]

\* enabledPools[poolID] of line 1133: operator[] gives the null outpoint for a missing key
EnabledPoolOutpoint(d, poolID) ==
    IF poolID \in DOMAIN EnabledPools(d) THEN EnabledPools(d)[poolID] ELSE 0

\* DepositKeys with <= in place of < in the test of the lock window
DepositKeys_OffByOne(d, nHeight) ==
    {k \in StakingReceiveKeys(d) :
        LET coin == d[CoinEntry(k[3])]
        IN  /\ coin.outAccountID # consensusParams.SaturnStakingGenesisID
            /\ ~(coin.nHeight + coin.lockBlocks <= nHeight)}

\* DepositKeys without the test of the lock window
DepositKeys_NoLock(d, nHeight) ==
    {k \in StakingReceiveKeys(d) :
        d[CoinEntry(k[3])].outAccountID # consensusParams.SaturnStakingGenesisID}

\* the records of deposits still locked at the epoch boundary (1005-1013)
DepositKeys(d, nHeight) ==
    {k \in StakingReceiveKeys(d) :
        LET coin == d[CoinEntry(k[3])]
        IN  /\ coin.outAccountID # consensusParams.SaturnStakingGenesisID
            /\ ~(coin.nHeight + coin.lockBlocks < nHeight)}

\* EpochPoolUsers with = in place of += at line 1013: the last deposit scanned is the stake
EpochPoolUsers_LastDeposit(d, nHeight) ==
    LET dk == DepositKeys(d, nHeight)
        coinOf == [k \in dk |-> d[CoinEntry(k[3])]]
        pools == {coinOf[k].receiverID : k \in dk} \cap DOMAIN EnabledPools(d)
    IN  [p \in pools |->
            LET users == {coinOf[k].outAccountID : k \in {x \in dk : coinOf[x].receiverID = p}}
            IN  [u \in users |->
                    LET mine == {k \in dk : coinOf[k].receiverID = p /\ coinOf[k].outAccountID = u}
                    IN  coinOf[CHOOSE k \in mine : \A k2 \in mine : KeyLE(k2, k)].amount]]

\* EpochPoolUsers without the filter of 1020-1027
EpochPoolUsers_NoFilter(d, nHeight) ==
    LET dk == DepositKeys(d, nHeight)
        coinOf == [k \in dk |-> d[CoinEntry(k[3])]]
        pools == {coinOf[k].receiverID : k \in dk}
    IN  [p \in pools |->
            LET users == {coinOf[k].outAccountID : k \in {x \in dk : coinOf[x].receiverID = p}}
            IN  [u \in users |->
                    LET mine == {k \in dk : coinOf[k].receiverID = p /\ coinOf[k].outAccountID = u}
                    IN  SumOf([k \in mine |-> coinOf[k].amount], mine)]]

\* epochPoolUsers after the filter of 1020-1027: pool -> user -> stake amount
EpochPoolUsers(d, nHeight) ==
    LET dk == DepositKeys(d, nHeight)
        coinOf == [k \in dk |-> d[CoinEntry(k[3])]]
        pools == {coinOf[k].receiverID : k \in dk} \cap DOMAIN EnabledPools(d)
    IN  [p \in pools |->
            LET users == {coinOf[k].outAccountID : k \in {x \in dk : coinOf[x].receiverID = p}}
            IN  [u \in users |->
                    LET mine == {k \in dk : coinOf[k].receiverID = p /\ coinOf[k].outAccountID = u}
                    IN  SumOf([k \in mine |-> coinOf[k].amount], mine)]]

\* hash of the block that began the previous epoch: nSaturnEpockBlocks steps along pprev
PrevEpochHash(h) == LookupBlockIndex(h).nHeight - consensusParams.nSaturnEpockBlocks

\* reward collected by a pool over the blocks of the previous epoch (1035-1039)
PrevEpochReward(h, poolID) ==
    LET n == consensusParams.nSaturnEpockBlocks
        blocks == {LookupBlockIndex(h).nHeight - i : i \in 0..(n - 1)}
        mine == {b \in blocks : LookupBlockIndex(b).minerAccountID = poolID}
    IN  SumOf([b \in mine |-> GetBlockStakingPoolSubsidy(b)], mine)

\* the entry of the user in the pool's user list of the previous epoch, if the previous
\* pool list is stored and not empty (1031, 1043, 1059-1062): a set of at most one entry
PrevEpochUser(d, h, poolID, userID) ==
    LET prevHash == PrevEpochHash(h)
        hasPrev == LookupBlockIndex(h).nHeight >= consensusParams.nSaturnActiveHeight
                                                  + consensusParams.nSaturnEpockBlocks
    IN  IF ~hasPrev \/ ~Exists(d, StakingPoolEntry(prevHash)) THEN {}
        ELSE IF d[StakingPoolEntry(prevHash)] = <<>> THEN {}
        ELSE IF ~Exists(d, StakingPoolUsersEntry(prevHash, poolID)) THEN {}
        ELSE LET preUsers == d[StakingPoolUsersEntry(prevHash, poolID)]
             IN  {preUsers[i] : i \in {x \in 1..Len(preUsers) : preUsers[x].accountID = userID}}

\* WithdrawCarried that does not look for the withdrawal coin
WithdrawCarried_Always(d, h, poolID, pre) == pre.withdrawableAmount

\* the withdrawable amount taken over from the previous epoch's entry pre (1066-1075)
WithdrawCarried(d, h, poolID, pre) ==
    IF pre.withdrawableAmount >= PROTOCOL_SATURN_STAKING_MIN_WITHDRAWABLE_AMOUNT
    THEN IF Exists(d, CoinEntry(CreateStakePendingCoinOutPoint(PrevEpochHash(h), poolID,
                                                               pre.accountID)))
         THEN pre.withdrawableAmount ELSE 0
    ELSE pre.withdrawableAmount

\* RewardAdded that gives every user the pool's whole reward
RewardAdded_Whole(d, h, poolID, pre) == PrevEpochReward(h, poolID)

\* the share of the previous epoch's reward added for the entry pre (1044-1048, 1077-1080)
RewardAdded(d, h, poolID, pre) ==
    LET prevPools == d[StakingPoolEntry(PrevEpochHash(h))]
        prevEpochPoolstakeAmount ==
            SumSeq([i \in 1..Len(prevPools) |-> prevPools[i].stakeAmount], Len(prevPools))
        reward == PrevEpochReward(h, poolID)
    IN  IF reward > 0 /\ prevEpochPoolstakeAmount > 0
        THEN CalcStakePoolUserReward(reward, pre.stakeAmount, prevEpochPoolstakeAmount)
        ELSE 0

\* withdrawableAmount of a user of the new epoch (1042-1084)
Withdrawable(d, h, poolID, userID) ==
    LET ps == PrevEpochUser(d, h, poolID, userID)
    IN  IF ps = {} THEN 0
        ELSE LET pre == CHOOSE x \in ps : TRUE
             IN  WithdrawCarried(d, h, poolID, pre) + RewardAdded(d, h, poolID, pre)

StakingPoolUser(accountID, stakeAmount, withdrawableAmount) ==
    [accountID |-> accountID, stakeAmount |-> stakeAmount,
     withdrawableAmount |-> withdrawableAmount]

StakingPool(poolID, outpoint, stakeAmount) ==
    [poolID |-> poolID, outpoint |-> outpoint, stakeAmount |-> stakeAmount]

\* the comparator of the std::sort calls (1119-1124, 1136-1141)
UserBefore(a, b) ==
    IF a.stakeAmount = b.stakeAmount THEN a.accountID < b.accountID
    ELSE a.stakeAmount > b.stakeAmount

\* PoolBefore without the tie-break on the pool id
PoolBefore_NoTieBreak(a, b) == a.stakeAmount > b.stakeAmount

PoolBefore(a, b) ==
    IF a.stakeAmount = b.stakeAmount THEN a.poolID < b.poolID
    ELSE a.stakeAmount > b.stakeAmount

RECURSIVE IterationOrder(_, _)
\* the order in which an unordered_map with the keys S is iterated: the standard leaves
\* it open; rev picks ascending or descending ids
IterationOrder(S, rev) ==
    IF S = {} THEN <<>>
    ELSE LET first == CHOOSE a \in S : \A b \in S : IF rev THEN b <= a ELSE a <= b
         IN  <<first>> \o IterationOrder(S \ {first}, rev)

RECURSIVE InsertUser(_, _)
\* u put into the sorted list l, before the first element it precedes
InsertUser(u, l) ==
    IF l = <<>> THEN <<u>>
    ELSE IF UserBefore(u, Head(l)) THEN <<u>> \o l
    ELSE <<Head(l)>> \o InsertUser(u, Tail(l))

\* SortUsers with the sort forgotten: the list stays in iteration order
SortUsers_NoSort(l) == l

RECURSIVE SortUsers(_)
\* std::sort of the user list l with the comparator of 1119-1124
SortUsers(l) == IF l = <<>> THEN <<>> ELSE InsertUser(Head(l), SortUsers(Tail(l)))

RECURSIVE InsertPool(_, _)
InsertPool(p, l) ==
    IF l = <<>> THEN <<p>>
    ELSE IF PoolBefore(p, Head(l)) THEN <<p>> \o l
    ELSE <<Head(l)>> \o InsertPool(p, Tail(l))

RECURSIVE SortPools(_)
\* std::sort of the pool list l with the comparator of 1136-1141
SortPools(l) == IF l = <<>> THEN <<>> ELSE InsertPool(Head(l), SortPools(Tail(l)))

\* PoolUsers that also lists the users of the previous epoch's list who have no deposit
\* now, with their previous withdrawable amount
PoolUsers_KeepPrior(d, h, poolID, rev) ==
    LET users == EpochPoolUsers(d, LookupBlockIndex(h).nHeight)[poolID]
        prev == IF Exists(d, StakingPoolUsersEntry(PrevEpochHash(h), poolID))
                THEN d[StakingPoolUsersEntry(PrevEpochHash(h), poolID)] ELSE <<>>
        gone == {prev[i].accountID : i \in 1..Len(prev)} \ DOMAIN users
        ids == IterationOrder(DOMAIN users \cup gone, rev)
    IN  [i \in 1..Len(ids) |->
            IF ids[i] \in gone
            THEN StakingPoolUser(ids[i], 0,
                     prev[CHOOSE j \in 1..Len(prev) : prev[j].accountID = ids[i]].withdrawableAmount)
            ELSE StakingPoolUser(ids[i], users[ids[i]], Withdrawable(d, h, poolID, ids[i]))]

\* the users of one pool as pushed to the list, in iteration order (1101-1105)
PoolUsers(d, h, poolID, rev) ==
    LET users == EpochPoolUsers(d, LookupBlockIndex(h).nHeight)[poolID]
        ids == IterationOrder(DOMAIN users, rev)
    IN  [i \in 1..Len(ids) |->
            StakingPoolUser(ids[i], users[ids[i]], Withdrawable(d, h, poolID, ids[i]))]

\* the user list written for one pool: pushed in iteration order, then sorted
SnapshotUsers(d, h, poolID, rev) == SortUsers(PoolUsers(d, h, poolID, rev))

\* the pool list written for the epoch: the pools that have users, pushed in iteration
\* order, then sorted
SnapshotPools(d, h, rev) ==
    LET epu == EpochPoolUsers(d, LookupBlockIndex(h).nHeight)
        ids == IterationOrder(DOMAIN epu, rev)
    IN  SortPools([i \in 1..Len(ids) |->
                      StakingPool(ids[i], EnabledPoolOutpoint(d, ids[i]),
                                  SumOf(epu[ids[i]], DOMAIN epu[ids[i]]))])

RECURSIVE PendingCoinWrites_NoThreshold(_, _, _)
\* PendingCoinWrites without the test of the minimum withdrawable amount
PendingCoinWrites_NoThreshold(h, poolID, users) ==
    IF users = <<>> THEN <<>>
    ELSE LET u == Head(users)
         IN  <<Put(CoinEntry(CreateStakePendingCoinOutPoint(h, poolID, u.accountID)),
                   PendingCoin(u.withdrawableAmount, u.accountID,
                               LookupBlockIndex(h).nHeight))>>
             \o PendingCoinWrites_NoThreshold(h, poolID, Tail(users))

RECURSIVE PendingCoinWrites(_, _, _)
\* the withdrawal coins written for the users of a pool, in the order of the list
PendingCoinWrites(h, poolID, users) ==
    IF users = <<>> THEN <<>>
    ELSE LET u == Head(users)
             rest == PendingCoinWrites(h, poolID, Tail(users))
         IN  IF u.withdrawableAmount >= PROTOCOL_SATURN_STAKING_MIN_WITHDRAWABLE_AMOUNT
             THEN <<Put(CoinEntry(CreateStakePendingCoinOutPoint(h, poolID, u.accountID)),
                        PendingCoin(u.withdrawableAmount, u.accountID,
                                    LookupBlockIndex(h).nHeight))>> \o rest
             ELSE rest

RECURSIVE PoolWrites(_, _, _, _)
\* per pool, in the order the pools are iterated: the withdrawal coins in the order the
\* users are iterated, then the sorted user list (1095-1135)
PoolWrites(d, h, pools, rev) ==
    IF pools = <<>> THEN <<>>
    ELSE LET p == Head(pools)
             users == PoolUsers(d, h, p, rev)
         IN  PendingCoinWrites(h, p, users)
             \o <<Put(StakingPoolUsersEntry(h, p), SortUsers(users))>>
             \o PoolWrites(d, h, Tail(pools), rev)

\* everything the snapshot of epoch block h writes, computed over the store d, in the
\* order of the writes
SnapshotWrites(d, h, rev) ==
    LET ids == IterationOrder(DOMAIN EpochPoolUsers(d, LookupBlockIndex(h).nHeight), rev)
    IN  PoolWrites(d, h, ids, rev) \o <<Put(StakingPoolEntry(h), SnapshotPools(d, h, rev))>>

-----------------------------------------------------------------------------
(* The caller's inputs *)

\* created, spent, or cached unmodified (no dirty flag)
Entries(S) == {Entry(o, FALSE, TRUE) : o \in S} \cup {Entry(o, TRUE, TRUE) : o \in S}
              \cup {Entry(o, FALSE, FALSE) : o \in S}

\* the deltas over the outpoints S: a sequence of entries, at most one per outpoint
Deltas(S) ==
    {q \in UNION {[1..n -> Entries(S)] : n \in 0..Cardinality(S)} :
        \A i, j \in 1..Len(q) : i # j => q[i].outpoint # q[j].outpoint}

\* the deltas of each group of outpoints
DeltasOf == [S \in Scenarios |-> Deltas(S)]

\* an interrupted commit left its head-blocks marker in the store
Pending == Len(GetHeadBlocks(db)) = 2

Callable == pc \in {"idle", "done", "crashed", "failed", "asserted", "queried"}

-----------------------------------------------------------------------------
(* BatchWrite, lines 422-520 *)

\* COutPoint::SetNull: the outpoint no coin has
NullOutpoint == 0

\* the caller holds no account cursor
NoCursor == [DBPrefix |-> "", outpoint |-> NullOutpoint, seen |-> <<>>]

\* no balance query has been made
NoQuery ==
    /\ queriedAccountID = NullAccountID /\ mapModifiedCoins = <<>> /\ nTop = 0
    /\ cursor = NoCursor

\* no upgrade has been run and no shutdown requested
NoUpgrade == pcursor = <<>> /\ fUpgraded = FALSE /\ fRequestShutdown = FALSE

Init ==
    /\ db = EmptyDB
    /\ pc = "idle"
    /\ mapCoins = <<>>
    /\ batch = <<>>
    /\ hashBlock = NullHash
    /\ old_tip = NullHash
    /\ ret = "none"
    /\ delta = <<>>
    /\ db0 = EmptyDB
    /\ flushed = 0
    /\ interrupts = 0
    /\ ops \in Scenarios
    /\ batch_size = DbBatchSize
    /\ NoQuery
    /\ NoUpgrade

\* OldTip without the recovery path: the marker of an interrupted commit is not read
OldTip_NoRecovery(d, h) == GetBestBlock(d)

\* the previous tip of lines 430-438 (the assertion of 435 holds)
OldTip(d, h) ==
    IF GetBestBlock(d) # NullHash THEN GetBestBlock(d)
    ELSE IF Len(GetHeadBlocks(d)) = 2 THEN GetHeadBlocks(d)[2]
    ELSE NullHash

\* FirstOps with the erasure of the tip record forgotten
FirstOps_KeepTip(h, old) == <<Put(DB_HEAD_BLOCKS, <<h, old>>)>>

\* FirstOps with the write of the marker forgotten
FirstOps_NoMarker(h, old) == <<Del(DB_BEST_BLOCK)>>

\* the first operations of the batch, lines 444-445
FirstOps(h, old) == <<Del(DB_BEST_BLOCK), Put(DB_HEAD_BLOCKS, <<h, old>>)>>

\* LastOps with the erasure of the marker forgotten
LastOps_KeepMarker(h) == <<Put(DB_BEST_BLOCK, h)>>

\* LastOps with the write of the tip forgotten
LastOps_NoTip(h) == <<Del(DB_HEAD_BLOCKS)>>

\* the last operations of the batch, lines 513-514
LastOps(h) == <<Del(DB_HEAD_BLOCKS), Put(DB_BEST_BLOCK, h)>>

\* the call is over: what it kept in memory is gone, and so is the caller's delta
Forget ==
    /\ batch' = <<>>
    /\ old_tip' = NullHash
    /\ flushed' = 0
    /\ delta' = <<>>
    /\ db0' = EmptyDB
    /\ interrupts' = 0

\* an exception leaves BatchWrite; the store keeps what was written before it.  The
\* caller keeps the delta for a retry while the store holds the head-blocks marker.
Thrown ==
    /\ pc' = "failed"
    /\ ret' = "error"
    /\ IF Exists(db, DB_HEAD_BLOCKS)
       THEN /\ batch' = <<>>
            /\ old_tip' = NullHash
            /\ flushed' = 0
            /\ interrupts' = interrupts + 1
            /\ UNCHANGED <<delta, db0>>
       ELSE Forget

\* lines 422-445, called on a store that holds no head-blocks marker
BatchWriteBegin(d, h) ==
    /\ Callable /\ ~Pending
    /\ old_tip' = OldTip(db, h)
    /\ batch' = FirstOps(h, OldTip(db, h))
    /\ mapCoins' = d
    /\ hashBlock' = h
    /\ pc' = "loop"
    /\ ret' = "none"
    /\ delta' = d
    /\ db0' = db
    /\ flushed' = 0
    /\ interrupts' = 0
    /\ UNCHANGED <<db, ops, batch_size, upgradeVars>>

\* BatchWriteRetry that trusts the marker and does not iterate the delta again
BatchWriteRetry_NoReplay ==
    /\ Callable /\ Pending
    /\ GetHeadBlocks(db)[1] = hashBlock
    /\ old_tip' = OldTip(db, hashBlock)
    /\ batch' = FirstOps(hashBlock, OldTip(db, hashBlock))
    /\ mapCoins' = <<>>
    /\ pc' = "loop"
    /\ ret' = "none"
    /\ flushed' = 0
    /\ UNCHANGED <<db, hashBlock, delta, db0, interrupts, ops, batch_size, balanceVars,
                   upgradeVars>>

\* lines 422-445, the caller commits the same delta and tip again after an interruption
BatchWriteRetry ==
    /\ Callable /\ Pending
    /\ GetHeadBlocks(db)[1] = hashBlock
    /\ old_tip' = OldTip(db, hashBlock)
    /\ batch' = FirstOps(hashBlock, OldTip(db, hashBlock))
    /\ mapCoins' = delta
    /\ pc' = "loop"
    /\ ret' = "none"
    /\ flushed' = 0
    /\ UNCHANGED <<db, hashBlock, delta, db0, interrupts, ops, batch_size, balanceVars,
                   upgradeVars>>

\* BatchWriteAssert without the assertion of 435: the call goes on with the tip passed
BatchWriteAssert_Proceeds(h) ==
    /\ Callable /\ Pending
    /\ GetBestBlock(db) = NullHash
    /\ GetHeadBlocks(db)[1] # h
    /\ old_tip' = GetHeadBlocks(db)[2]
    /\ batch' = FirstOps(h, GetHeadBlocks(db)[2])
    /\ mapCoins' = <<>>
    /\ hashBlock' = h
    /\ pc' = "loop"
    /\ ret' = "none"
    /\ UNCHANGED <<db, delta, db0, flushed, interrupts, ops, batch_size, balanceVars,
                   upgradeVars>>

\* lines 430-435: the marker's first entry is not the tip passed, the assertion fails
BatchWriteAssert(h) ==
    /\ Callable /\ Pending
    /\ GetBestBlock(db) = NullHash
    /\ GetHeadBlocks(db)[1] # h
    /\ pc' = "asserted"
    /\ ret' = "abort"
    /\ UNCHANGED <<db, mapCoins, batch, hashBlock, old_tip, delta, db0, flushed,
                   interrupts, ops, batch_size, balanceVars,
                   upgradeVars>>

\* lines 447-494 and the test of 495 failing: the entry's operations stay in the batch
LoopKeep ==
    /\ pc = "loop" /\ mapCoins # <<>>
    /\ LET c == LoopChunk(batch, Head(mapCoins), batch_size)
       IN  /\ c.write = <<>>
           /\ batch' = c.keep
    /\ mapCoins' = Tail(mapCoins)
    /\ UNCHANGED <<db, pc, hashBlock, old_tip, ret, delta, db0, flushed,
                   interrupts, ops, batch_size, balanceVars,
                   upgradeVars>>

\* lines 447-498: the batch is written physically and cleared
LoopFlush ==
    /\ pc = "loop" /\ mapCoins # <<>>
    /\ LET c == LoopChunk(batch, Head(mapCoins), batch_size)
       IN  /\ c.write # <<>>
           /\ db' = ApplyBatch(db, c.write)
           /\ batch' = c.keep
    /\ mapCoins' = Tail(mapCoins)
    /\ flushed' = flushed + 1
    /\ UNCHANGED <<pc, hashBlock, old_tip, ret, delta, db0, interrupts, ops, batch_size, balanceVars,
                   upgradeVars>>

\* lines 499-504: -dbcrashratio ends the process right after a partial write
LoopFlushCrash ==
    /\ pc = "loop" /\ mapCoins # <<>>
    /\ interrupts < MaxInterrupts
    /\ LET c == LoopChunk(batch, Head(mapCoins), batch_size)
       IN  /\ c.write # <<>>
           /\ db' = ApplyBatch(db, c.write)
    /\ batch' = <<>>
    /\ mapCoins' = <<>>
    /\ old_tip' = NullHash
    /\ flushed' = 0
    /\ interrupts' = interrupts + 1
    /\ pc' = "crashed"
    /\ UNCHANGED <<hashBlock, ret, delta, db0, ops, batch_size, balanceVars,
                   upgradeVars>>

\* line 497 when the physical write fails: nothing of the chunk is stored, the error
\* leaves BatchWrite
LoopFlushFail ==
    /\ pc = "loop" /\ mapCoins # <<>>
    /\ interrupts < MaxInterrupts
    /\ LoopChunk(batch, Head(mapCoins), batch_size).write # <<>>
    /\ mapCoins' = <<>>
    /\ Thrown
    /\ UNCHANGED <<db, hashBlock, ops, batch_size, balanceVars,
                   upgradeVars>>

\* TrySnapshotStakingPoolStatus over the store d for the epoch block h: the store after it
TrySnapshotStakingPoolStatus(d, h, rev) ==
    IF ~SnapshotTriggered(LookupBlockIndex(h).nHeight) THEN d
    ELSE ApplyBatch(d, SnapshotWrites(d, h, rev))

\* lines 509-510: the loop is over, the snapshot runs on the store before the final chunk
Snapshot ==
    /\ pc = "loop" /\ mapCoins = <<>>
    /\ IF SnapshotTriggered(LookupBlockIndex(hashBlock).nHeight) /\ InvalidStakingCoin(db)
       THEN /\ Thrown
            /\ db' = db
       ELSE /\ pc' = "final"
            /\ \E rev \in BOOLEAN : db' = TrySnapshotStakingPoolStatus(db, hashBlock, rev)
            /\ UNCHANGED <<ret, batch, old_tip, delta, db0, flushed, interrupts>>
    /\ UNCHANGED <<mapCoins, hashBlock, ops, batch_size, balanceVars,
                   upgradeVars>>

\* lines 512-519: the last chunk erases the marker and writes the tip; the call returns
FinalChunk ==
    /\ pc = "final"
    /\ db' = ApplyBatch(db, batch \o LastOps(hashBlock))
    /\ pc' = "done"
    /\ ret' = "true"
    /\ Forget
    /\ UNCHANGED <<mapCoins, hashBlock, ops, batch_size, balanceVars,
                   upgradeVars>>

\* line 517 when the physical write fails
FinalChunkFail ==
    /\ pc = "final"
    /\ interrupts < MaxInterrupts
    /\ Thrown
    /\ UNCHANGED <<db, mapCoins, hashBlock, ops, batch_size, balanceVars,
                   upgradeVars>>

Next ==
    \/ Callable /\ UNCHANGED balanceVars
          /\ \E d \in DeltasOf[ops], h \in Tips : BatchWriteBegin(d, h)
    \/ BatchWriteRetry
    \/ Callable /\ \E h \in Tips : BatchWriteAssert(h)
    \/ LoopKeep
    \/ LoopFlush
    \/ LoopFlushCrash
    \/ LoopFlushFail
    \/ Snapshot
    \/ FinalChunk
    \/ FinalChunkFail

Spec == Init /\ [][Next]_vars

-----------------------------------------------------------------------------
(* One BatchWrite run to its end without interruption, lines 422-520 *)

RECURSIVE RunLoop(_, _, _)
\* the loop of lines 447-507 over the entries m: the store and the batch after it
RunLoop(d, b, m) ==
    IF m = <<>> THEN [db |-> d, batch |-> b]
    ELSE LET c == LoopChunk(b, Head(m), DbBatchSize)
         IN  RunLoop(IF c.write = <<>> THEN d ELSE ApplyBatch(d, c.write), c.keep, Tail(m))

\* the store after BatchWrite(m, h) ran on the store d0 without crash or failure
Uninterrupted(d0, m, h) ==
    LET r == RunLoop(d0, FirstOps(h, OldTip(d0, h)), m)
        s == TrySnapshotStakingPoolStatus(r.db, h, FALSE)
    IN  ApplyBatch(s, r.batch \o LastOps(h))

-----------------------------------------------------------------------------
(* Epoch runs: a store with staking coins, then one commit per block across the epoch
   boundaries; each commit creates or spends at most one coin *)

\* the groups of staking coins an epoch run draws from: one pool with several deposits;
\* two registered pools; coins that register nothing
SnapScenarios == {{4, 5, 6, 7, 8}, {4, 5, 6, 9, 10}, {4, 5, 9, 11, 12}}

\* the last block an epoch run commits
SnapMaxHeight == consensusParams.nSaturnEpockBlocks * MaxEpoch

\* the delta that creates the coins of S
CreateDelta(S) ==
    LET ids == IterationOrder(S, FALSE)
    IN  [i \in 1..Len(ids) |-> Entry(ids[i], FALSE, TRUE)]

\* the withdrawal coins stored by earlier snapshots
PendingCoinKeys(d) == {k \in DOMAIN d : k[1] = "C" /\ k[3] \notin Outpoints}

\* the deltas of the block of height h: nothing, a coin of the group created in this
\* block (deposits are made in the blocks between the epoch boundaries), a coin of the
\* group spent, or a withdrawal coin spent
SnapDeltas(d, S, h) ==
    {<<>>}
    \cup {<<[Entry(o, FALSE, TRUE) EXCEPT !.coin.nHeight = h]>> :
              o \in {x \in S : /\ ~Exists(d, CoinEntry(x))
                             /\ h % consensusParams.nSaturnEpockBlocks # 0}}
    \cup {<<[outpoint |-> o, coin |-> d[CoinEntry(o)], spent |-> TRUE, dirty |-> TRUE]>> :
              o \in {x \in S : Exists(d, CoinEntry(x))}}
    \cup {<<[outpoint |-> k[3], coin |-> d[k], spent |-> TRUE, dirty |-> TRUE]>> :
              k \in PendingCoinKeys(d)}

\* the store holds coins of one group, committed with the block of height 3
SnapInit ==
    /\ ops \in SnapScenarios
    /\ \E S \in SUBSET ops : db = Uninterrupted(EmptyDB, CreateDelta(S), 3)
    /\ pc = "done"
    /\ mapCoins = <<>>
    /\ batch = <<>>
    /\ hashBlock = 3
    /\ old_tip = NullHash
    /\ ret = "true"
    /\ delta = <<>>
    /\ db0 = EmptyDB
    /\ flushed = 0
    /\ interrupts = 0
    /\ batch_size = DbBatchSize
    /\ NoQuery
    /\ NoUpgrade

\* the caller commits the next block
SnapCommit ==
    /\ pc = "done"
    /\ GetBestBlock(db) < SnapMaxHeight
    /\ \E d \in SnapDeltas(db, ops, GetBestBlock(db) + 1) :
          BatchWriteBegin(d, GetBestBlock(db) + 1)
    /\ UNCHANGED balanceVars

SnapNext == SnapCommit \/ LoopKeep \/ LoopFlush \/ Snapshot \/ FinalChunk

SnapSpec == SnapInit /\ [][SnapNext]_vars

-----------------------------------------------------------------------------
(* GetAccountBalance, lines 600-845: every category requested *)

PROTOCOL_BINDPLOTTER_LOCKAMOUNT == 3

\* the records a cursor loop visits: Seek to the first key of the kind and the account,
\* Next until the key is of another kind or another account
AccountKeys(d, prefix, accountID) ==
    {k \in DOMAIN d : k[1] = prefix /\ k[2] = accountID}

\* the sum of the overlay contributions f(e) of the entries of m
OverlaySum(f, m) == SumSeq([i \in 1..Len(m) |-> f[i]], Len(m))

\* AvailableDelta that adds a live overlay coin whether or not its record is stored
AvailableDelta_AddAlways(d, accountID, e) ==
    IF ~e.dirty \/ e.coin.outAccountID # accountID THEN 0
    ELSE IF e.spent
         THEN IF Exists(d, CoinIndexEntry(e.outpoint, e.coin.outAccountID))
              THEN 0 - e.coin.nValue ELSE 0
         ELSE e.coin.nValue

\* lines 622-635: what one overlay entry adds to the available balance
AvailableDelta(d, accountID, e) ==
    IF ~e.dirty \/ e.coin.outAccountID # accountID THEN 0
    ELSE IF e.spent
         THEN IF Exists(d, CoinIndexEntry(e.outpoint, e.coin.outAccountID))
              THEN 0 - e.coin.nValue ELSE 0
         ELSE IF ~Exists(d, CoinIndexEntry(e.outpoint, e.coin.outAccountID))
              THEN e.coin.nValue ELSE 0

\* lines 604-636
AvailableBalance(d, accountID, m) ==
    LET keys == AccountKeys(d, "c", accountID)
    IN  SumOf([k \in keys |-> d[k]], keys)
        + OverlaySum([i \in 1..Len(m) |-> AvailableDelta(d, accountID, m[i])], m)

\* lines 663-674: what one overlay entry adds to the bind-plotter balance
BindPlotterDelta(d, accountID, e) ==
    IF ~e.dirty \/ e.coin.type # "BindPlotter" THEN 0
    ELSE IF Exists(d, BindPlotterEntry(e.outpoint, accountID))
         THEN IF e.spent THEN 0 - PROTOCOL_BINDPLOTTER_LOCKAMOUNT ELSE 0
         ELSE IF e.coin.outAccountID = accountID /\ ~e.spent
              THEN PROTOCOL_BINDPLOTTER_LOCKAMOUNT ELSE 0

\* lines 640-677
BindPlotterBalance(d, accountID, m) ==
    Cardinality(AccountKeys(d, "r", accountID)) * PROTOCOL_BINDPLOTTER_LOCKAMOUNT
    + OverlaySum([i \in 1..Len(m) |-> BindPlotterDelta(d, accountID, m[i])], m)

\* the key prefix of the send and of the receive index of a payload kind
SendPrefix(kind) == IF kind = "Point" THEN "P" ELSE "S"
ReceivePrefix(kind) == IF kind = "Point" THEN "p" ELSE "s"

\* lines 693 and 775: the primary coin of a send record cannot be read
SendReadError(d, accountID, kind) ==
    \E k \in AccountKeys(d, SendPrefix(kind), accountID) : ~Exists(d, CoinEntry(k[3]))

\* SendDelta that subtracts a spent overlay coin whether or not it was selected
SendDelta_SubtractAlways(d, accountID, e, kind) ==
    IF ~e.dirty \/ e.coin.type # kind THEN 0
    ELSE IF e.spent
         THEN IF e.coin.outAccountID = accountID THEN 0 - e.coin.nValue ELSE 0
         ELSE IF ~Exists(d, <<SendPrefix(kind), accountID, e.outpoint>>)
                 /\ e.coin.outAccountID = accountID
              THEN e.coin.nValue ELSE 0

\* lines 703-715 and 785-797: what one overlay entry adds to the send balance of a kind
SendDelta(d, accountID, e, kind) ==
    IF ~e.dirty \/ e.coin.type # kind THEN 0
    ELSE IF Exists(d, <<SendPrefix(kind), accountID, e.outpoint>>)
         THEN IF e.spent THEN 0 - d[CoinEntry(e.outpoint)].nValue ELSE 0
         ELSE IF e.coin.outAccountID = accountID /\ ~e.spent
              THEN e.coin.nValue ELSE 0

\* lines 682-718 and 764-800, no read error
SendBalance(d, accountID, m, kind) ==
    LET keys == AccountKeys(d, SendPrefix(kind), accountID)
    IN  SumOf([k \in keys |-> d[CoinEntry(k[3])].nValue], keys)
        + OverlaySum([i \in 1..Len(m) |-> SendDelta(d, accountID, m[i], kind)], m)

\* ReceiveDelta that adds the value of the live overlay coin in place of the payload amount
ReceiveDelta_Value(d, accountID, e, kind) ==
    IF ~e.dirty \/ e.coin.type # kind THEN 0
    ELSE IF Exists(d, <<ReceivePrefix(kind), accountID, e.outpoint>>)
         THEN IF e.spent THEN 0 - d[<<ReceivePrefix(kind), accountID, e.outpoint>>] ELSE 0
         ELSE IF e.coin.receiverID = accountID /\ ~e.spent
              THEN e.coin.nValue ELSE 0

\* lines 742-755 and 824-837: what one overlay entry adds to the receive balance of a kind
ReceiveDelta(d, accountID, e, kind) ==
    IF ~e.dirty \/ e.coin.type # kind THEN 0
    ELSE IF Exists(d, <<ReceivePrefix(kind), accountID, e.outpoint>>)
         THEN IF e.spent THEN 0 - d[<<ReceivePrefix(kind), accountID, e.outpoint>>] ELSE 0
         ELSE IF e.coin.receiverID = accountID /\ ~e.spent
              THEN e.coin.amount ELSE 0

\* lines 721-758 and 803-840
ReceiveBalance(d, accountID, m, kind) ==
    LET keys == AccountKeys(d, ReceivePrefix(kind), accountID)
    IN  SumOf([k \in keys |-> d[k]], keys)
        + OverlaySum([i \in 1..Len(m) |-> ReceiveDelta(d, accountID, m[i], kind)], m)

\* The outcome of GetAccountBalance(accountID, ..., mapModifiedCoins) on the store d: the
\* amounts of the six categories, or the outcome "asserted" when an assertion on an
\* amount fails and "error" when the read of a primary coin throws; the categories in
\* the code's order.
GetAccountBalance(d, accountID, m) ==
    IF AvailableBalance(d, accountID, m) < 0 THEN [outcome |-> "asserted"]
    ELSE IF BindPlotterBalance(d, accountID, m) < 0 THEN [outcome |-> "asserted"]
    ELSE IF SendReadError(d, accountID, "Point") THEN [outcome |-> "error"]
    ELSE IF SendBalance(d, accountID, m, "Point") < 0 THEN [outcome |-> "asserted"]
    ELSE IF ReceiveBalance(d, accountID, m, "Point") < 0 THEN [outcome |-> "asserted"]
    ELSE IF SendReadError(d, accountID, "Staking") THEN [outcome |-> "error"]
    ELSE IF SendBalance(d, accountID, m, "Staking") < 0 THEN [outcome |-> "asserted"]
    ELSE IF ReceiveBalance(d, accountID, m, "Staking") < 0 THEN [outcome |-> "asserted"]
    ELSE [outcome |-> "returned",
          availableBalance |-> AvailableBalance(d, accountID, m),
          balanceBindPlotter |-> BindPlotterBalance(d, accountID, m),
          balancePoint |-> <<SendBalance(d, accountID, m, "Point"),
                             ReceiveBalance(d, accountID, m, "Point")>>,
          balanceStaking |-> <<SendBalance(d, accountID, m, "Staking"),
                               ReceiveBalance(d, accountID, m, "Staking")>>]

-----------------------------------------------------------------------------
(* Balance runs: the caller queries balances with an overlay of modified coins and
   commits that overlay *)

\* the groups of outpoints of a balance run: all payload kinds; a point coin and two
\* staking coins of its receiver
BalScenarios == {{1, 2, 3}, {3, 4, 7}}

\* the accounts queried: owners, receivers, and an account without coins in the groups
BalAccounts == {2, 3, 6}

\* the tip of every commit of a balance run, a block between two epoch boundaries
BalTip == 3

BalInit ==
    /\ db = EmptyDB
    /\ pc = "idle"
    /\ mapCoins = <<>>
    /\ batch = <<>>
    /\ hashBlock = NullHash
    /\ old_tip = NullHash
    /\ ret = "none"
    /\ delta = <<>>
    /\ db0 = EmptyDB
    /\ flushed = 0
    /\ interrupts = 0
    /\ ops \in BalScenarios
    /\ batch_size = DbBatchSize
    /\ NoQuery
    /\ NoUpgrade

\* GetAccountBalance called while no commit is in flight (a query changes nothing in the
\* store, so the next call of a run after a query is the commit)
BalQuery ==
    /\ Callable /\ pc # "queried"
    /\ \E a \in BalAccounts, m \in Deltas(ops) :
          /\ queriedAccountID' = a
          /\ mapModifiedCoins' = m
          /\ nTop' = 0
          /\ cursor' = cursor
          /\ ret' = GetAccountBalance(db, a, m)
    /\ pc' = "queried"
    /\ UNCHANGED <<db, mapCoins, batch, hashBlock, old_tip, delta, db0, flushed,
                   interrupts, ops, batch_size, upgradeVars>>

\* the caller flushes the overlay of its last query to the store; its cache is empty
\* afterwards
BalCommit ==
    /\ pc = "queried"
    /\ BatchWriteBegin(mapModifiedCoins, BalTip)
    /\ queriedAccountID' = NullAccountID
    /\ mapModifiedCoins' = <<>>
    /\ nTop' = 0
    /\ cursor' = cursor

BalNext == BalQuery \/ BalCommit \/ LoopKeep \/ LoopFlush \/ Snapshot \/ FinalChunk

BalSpec == BalInit /\ [][BalNext]_vars

-----------------------------------------------------------------------------
(* Upgrade, lines 1262-1367 *)

DB_COIN_VERSION == <<"V", 0, 0>>
DB_VERSION == 1

\* the first byte of each key prefix (lines 30-52); LevelDB iterates in byte order
PrefixCode ==
    [B |-> 66, C |-> 67, H |-> 72, P |-> 80, S |-> 83, T |-> 84, V |-> 86,
     c |-> 99, p |-> 112, r |-> 114, s |-> 115, t |-> 116]

\* the iteration order of the store's keys
CursorBefore(k1, k2) ==
    \/ PrefixCode[k1[1]] < PrefixCode[k2[1]]
    \/ k1[1] = k2[1] /\ KeyLE(k1, k2)

RECURSIVE SortedKeys(_)
SortedKeys(S) ==
    IF S = {} THEN <<>>
    ELSE LET k == CHOOSE x \in S : \A y \in S : CursorBefore(x, y)
         IN  <<k>> \o SortedKeys(S \ {k})

\* db.NewIterator() positioned by Seek(from): the key-value pairs of the store as it was
\* when the iterator was created, from the first key not before `from`
Cursor(d, from) ==
    LET ks == SortedKeys({k \in DOMAIN d : CursorBefore(from, k)})
    IN  [i \in 1..Len(ks) |-> <<ks[i], d[ks[i]]>>]

\* IsIndexKey with the receive-side prefixes forgotten
IsIndexKey_NoReceive(k) == k[1] \in {"c", "r", "P", "S"}

\* IsIndexKey that spares the account index records
IsIndexKey_NoAccount(k) == k[1] \in {"r", "P", "p", "S", "s"}

\* the test of lines 1285-1287: every index key is longer than 32 bytes
IsIndexKey(k) == k[1] \in IndexPrefixes

\* the version record holds the current version (line 1266)
VersionCurrent(d) == Exists(d, DB_COIN_VERSION) /\ d[DB_COIN_VERSION] = DB_VERSION

\* the store the iterator of line 1277 sees: the store at the call without its version
IteratorView(d) == ApplyOp(d, Del(DB_COIN_VERSION))

\* Upgrade called on a store of the current version: nothing to do (1263-1267)
UpgradeCurrent ==
    /\ pc \in {"idle", "done", "crashed", "failed"}
    /\ ~fRequestShutdown
    /\ VersionCurrent(db)
    /\ fUpgraded' = FALSE
    /\ ret' = "true"
    /\ pc' = "done"
    /\ db0' = db
    /\ pcursor' = <<>>
    /\ batch' = <<>>
    /\ UNCHANGED <<db, mapCoins, hashBlock, old_tip, delta, flushed, interrupts, ops,
                   batch_size, balanceVars, fRequestShutdown>>

\* UpgradeBegin with the erasure of the version record forgotten
UpgradeBegin_KeepVersion ==
    /\ pc \in {"idle", "done", "crashed", "failed"}
    /\ ~fRequestShutdown
    /\ ~VersionCurrent(db)
    /\ fUpgraded' = TRUE
    /\ db0' = db
    /\ pcursor' = Cursor(db, <<"B", 0, 0>>)
    /\ batch' = <<>>
    /\ ret' = "none"
    /\ pc' = "clear"
    /\ UNCHANGED <<db, mapCoins, hashBlock, old_tip, delta, flushed, interrupts, ops,
                   batch_size, balanceVars, fRequestShutdown>>

\* Upgrade called on a store of another version or of none: the version record is
\* erased and the iterator created and moved to the first key (1268-1280)
UpgradeBegin ==
    /\ pc \in {"idle", "done", "crashed", "failed"}
    /\ ~fRequestShutdown
    /\ ~VersionCurrent(db)
    /\ db' = IteratorView(db)
    /\ fUpgraded' = TRUE
    /\ db0' = db
    /\ pcursor' = Cursor(IteratorView(db), <<"B", 0, 0>>)
    /\ batch' = <<>>
    /\ ret' = "none"
    /\ pc' = "clear"
    /\ UNCHANGED <<mapCoins, hashBlock, old_tip, delta, flushed, interrupts, ops,
                   batch_size, balanceVars, fRequestShutdown>>

\* one turn of the loop of 1283-1296: an index key is erased in the batch, and the batch
\* written once it is over the size
UpgradeClear ==
    /\ pc = "clear"
    /\ pcursor # <<>>
    /\ LET key == Head(pcursor)[1]
           full == Append(batch, Del(key))
       IN  IF ~IsIndexKey(key) THEN UNCHANGED <<db, batch>>
           ELSE IF SizeEstimate(full) > batch_size
           THEN db' = ApplyBatch(db, full) /\ batch' = <<>>
           ELSE batch' = full /\ UNCHANGED db
    /\ pcursor' = Tail(pcursor)
    /\ UNCHANGED <<pc, mapCoins, hashBlock, old_tip, ret, delta, db0, flushed, interrupts,
                   ops, batch_size, balanceVars, fUpgraded, fRequestShutdown>>

\* the end of the first loop: the batch is written and the iterator moved to the first
\* coin record (1297-1301)
UpgradeClearEnd ==
    /\ pc = "clear"
    /\ pcursor = <<>>
    /\ db' = ApplyBatch(db, batch)
    /\ batch' = <<>>
    /\ pcursor' = Cursor(IteratorView(db0), CoinEntry(0))
    /\ pc' = "index"
    /\ UNCHANGED <<mapCoins, hashBlock, old_tip, ret, delta, db0, flushed, interrupts,
                   ops, batch_size, balanceVars, fUpgraded, fRequestShutdown>>

\* pcursor->GetValue(coin) succeeds (1311): the stored value is a coin record
Parsable(v) == v.type # "Corrupt"

\* the second loop runs while the iterator is on a coin record (1308-1309, 1350-1352)
OnCoin == pcursor # <<>> /\ Head(pcursor)[1][1] = "C"

\* one turn of the loop of 1308-1353: the index records of a coin with an owner are
\* written in the batch, and the batch written once it is over the size
UpgradeIndex ==
    /\ pc = "index"
    /\ OnCoin
    /\ Parsable(Head(pcursor)[2])
    /\ LET e == [outpoint |-> Head(pcursor)[1][3], coin |-> Head(pcursor)[2]]
           full == batch \o WriteIndex(e)
       IN  IF e.coin.outAccountID = NullAccountID THEN UNCHANGED <<db, batch>>
           ELSE IF SizeEstimate(full) > batch_size
           THEN db' = ApplyBatch(db, full) /\ batch' = <<>>
           ELSE batch' = full /\ UNCHANGED db
    /\ pcursor' = Tail(pcursor)
    /\ UNCHANGED <<pc, mapCoins, hashBlock, old_tip, ret, delta, db0, flushed, interrupts,
                   ops, batch_size, balanceVars, fUpgraded, fRequestShutdown>>

\* lines 1311-1312: the value of the coin record cannot be parsed; Upgrade returns false
\* and its batch is dropped
UpgradeIndexFail ==
    /\ pc = "index"
    /\ OnCoin
    /\ ~Parsable(Head(pcursor)[2])
    /\ pc' = "failed"
    /\ ret' = "false"
    /\ batch' = <<>>
    /\ pcursor' = <<>>
    /\ UNCHANGED <<db, mapCoins, hashBlock, old_tip, delta, db0, flushed, interrupts,
                   ops, batch_size, balanceVars, fUpgraded, fRequestShutdown>>

\* the end of the second loop: the batch is written (1354)
UpgradeIndexEnd ==
    /\ pc = "index"
    /\ ~OnCoin
    /\ db' = ApplyBatch(db, batch)
    /\ batch' = <<>>
    /\ pcursor' = <<>>
    /\ pc' = "version"
    /\ UNCHANGED <<mapCoins, hashBlock, old_tip, ret, delta, db0, flushed, interrupts,
                   ops, batch_size, balanceVars, fUpgraded, fRequestShutdown>>

\* the version record is written and the call returns whether no shutdown was requested
\* (1358-1364)
UpgradeFinish ==
    /\ pc = "version"
    /\ db' = ApplyOp(db, Put(DB_COIN_VERSION, DB_VERSION))
    /\ ret' = IF fRequestShutdown THEN "false" ELSE "true"
    /\ pc' = "done"
    /\ UNCHANGED <<mapCoins, batch, hashBlock, old_tip, delta, db0, flushed, interrupts,
                   ops, batch_size, balanceVars, upgradeVars>>

\* a shutdown is requested while Upgrade runs
RequestShutdown ==
    /\ pc \in {"clear", "index", "version"}
    /\ ~fRequestShutdown
    /\ fRequestShutdown' = TRUE
    /\ UNCHANGED <<db, pc, mapCoins, batch, hashBlock, old_tip, ret, delta, db0, flushed,
                   interrupts, ops, batch_size, balanceVars, pcursor, fUpgraded>>

\* the process dies while Upgrade runs: batch and iterator are lost, the store stays
UpgradeCrash ==
    /\ pc \in {"clear", "index", "version"}
    /\ interrupts < MaxInterrupts
    /\ interrupts' = interrupts + 1
    /\ pc' = "crashed"
    /\ batch' = <<>>
    /\ pcursor' = <<>>
    /\ ret' = "none"
    /\ fRequestShutdown' = FALSE
    /\ UNCHANGED <<db, mapCoins, hashBlock, old_tip, delta, db0, flushed, ops, batch_size,
                   balanceVars, fUpgraded>>

\* the node is started again after a shutdown
Restart ==
    /\ pc = "done"
    /\ fRequestShutdown
    /\ fRequestShutdown' = FALSE
    /\ pc' = "idle"
    /\ ret' = "none"
    /\ UNCHANGED <<db, mapCoins, batch, hashBlock, old_tip, delta, db0, flushed,
                   interrupts, ops, batch_size, balanceVars, pcursor, fUpgraded>>

\* the groups of coins of an upgrade run: every payload kind and a coin without owner
UpgScenarios == {{1, 2, 3}, {2, 3, 4}}

\* the tip of the store an upgrade run starts from
UpgTip == 3

\* the store with the coins S committed, primary and index records
CommittedStore(S) ==
    LET ks == SortedKeys({CoinEntry(o) : o \in S})
    IN  Uninterrupted(EmptyDB, [i \in 1..Len(ks) |-> Entry(ks[i][3], FALSE, TRUE)], UpgTip)

\* a store restricted to the keys K
Restrict(d, K) == [k \in DOMAIN d \cap K |-> d[k]]

\* the stores an upgrade run starts from, given the store full with all coins of the
\* group committed: the coins S with their index records, without any, or with the
\* records of an older format: those of coins that are not in the store
LegacyOf(full, S) ==
    {CommittedStore(S)}
    \cup UNION {{Restrict(full, live),
                 Restrict(full, live \cup {k \in DOMAIN full : k[1] \in IndexPrefixes})} :
                   live \in {{k \in DOMAIN full : /\ k[1] \notin IndexPrefixes
                                                   /\ k[1] = "C" => k[3] \in S}}}

LegacyStores(G) ==
    UNION {UNION {LegacyOf(full, S) : S \in SUBSET G} : full \in {CommittedStore(G)}}

\* the stores in L, and those with one coin record whose value cannot be parsed, all
\* without version record; those in L with an older version record
VersionsOf(L) ==
    L
    \cup UNION {{[d EXCEPT ![k].type = "Corrupt"] : k \in {x \in DOMAIN d : x[1] = "C"}} :
                   d \in L}
    \cup {ApplyOp(d, Put(DB_COIN_VERSION, 0)) : d \in L}

\* the stores an upgrade run starts from: the legacy stores, and the stores with the
\* current version, where the index records are those of the coins
UpgStores(G) ==
    UNION {VersionsOf(L) : L \in {LegacyStores(G)}}
    \cup {ApplyOp(CommittedStore(S), Put(DB_COIN_VERSION, DB_VERSION)) : S \in SUBSET G}

UpgInit ==
    /\ ops \in UpgScenarios
    /\ db \in UpgStores(ops)
    /\ pc = "idle"
    /\ mapCoins = <<>>
    /\ batch = <<>>
    /\ hashBlock = NullHash
    /\ old_tip = NullHash
    /\ ret = "none"
    /\ delta = <<>>
    /\ db0 = db
    /\ flushed = 0
    /\ interrupts = 0
    /\ batch_size = DbBatchSize
    /\ NoQuery
    /\ NoUpgrade

UpgNext ==
    \/ UpgradeCurrent
    \/ UpgradeBegin
    \/ UpgradeClear
    \/ UpgradeClearEnd
    \/ UpgradeIndex
    \/ UpgradeIndexFail
    \/ UpgradeIndexEnd
    \/ UpgradeFinish
    \/ RequestShutdown
    \/ UpgradeCrash
    \/ Restart

UpgSpec == UpgInit /\ [][UpgNext]_vars

-----------------------------------------------------------------------------
(* Epoch runs with a small -dbbatchsize and a process that can die while the snapshot
   writes, lines 1088-1145 *)

\* the -dbbatchsize of these runs, read at 1091: small enough for the snapshot to write
\* partial batches
CrashBatchSize == 1

RECURSIVE SnapshotFlushes(_, _, _)
\* the batches the snapshot writes physically, in order: after each withdrawal coin and
\* each user list the batch b is written once it is over the size (1110-1114,
\* 1125-1129); the pool list, the last of the writes w, goes out with what is left
\* (1142-1145)
SnapshotFlushes(b, w, size) ==
    IF Len(w) = 1 THEN <<b \o w>>
    ELSE LET full == Append(b, Head(w))
         IN  IF SizeEstimate(full) > size
             THEN <<full>> \o SnapshotFlushes(<<>>, Tail(w), size)
             ELSE SnapshotFlushes(full, Tail(w), size)

RECURSIVE Concat(_, _)
\* the first n of the batches bs, one after the other
Concat(bs, n) == IF n = 0 THEN <<>> ELSE Concat(bs, n - 1) \o bs[n]

\* the process dies between two physical writes of the snapshot: the partial batches
\* written so far stay in the store
SnapshotCrash ==
    /\ pc = "loop" /\ mapCoins = <<>>
    /\ SnapshotTriggered(LookupBlockIndex(hashBlock).nHeight)
    /\ ~InvalidStakingCoin(db)
    /\ interrupts < MaxInterrupts
    /\ \E rev \in BOOLEAN :
          LET bs == SnapshotFlushes(<<>>, SnapshotWrites(db, hashBlock, rev), batch_size)
          IN  \E n \in 1..(Len(bs) - 1) : db' = ApplyBatch(db, Concat(bs, n))
    /\ batch' = <<>>
    /\ old_tip' = NullHash
    /\ flushed' = 0
    /\ interrupts' = interrupts + 1
    /\ pc' = "crashed"
    /\ UNCHANGED <<mapCoins, hashBlock, ret, delta, db0, ops, batch_size, balanceVars,
                   upgradeVars>>

\* the group of staking coins of these runs: two registered pools
CrashScenarios == {{4, 5, 6, 9, 10}}

CrashInit ==
    /\ ops \in CrashScenarios
    /\ \E S \in SUBSET ops : db = Uninterrupted(EmptyDB, CreateDelta(S), 3)
    /\ pc = "done"
    /\ mapCoins = <<>>
    /\ batch = <<>>
    /\ hashBlock = 3
    /\ old_tip = NullHash
    /\ ret = "true"
    /\ delta = <<>>
    /\ db0 = EmptyDB
    /\ flushed = 0
    /\ interrupts = 0
    /\ batch_size = CrashBatchSize
    /\ NoQuery
    /\ NoUpgrade

\* the caller commits the next block; after a crash that left no marker the block is
\* the one whose commit was interrupted
CrashCommit ==
    /\ pc \in {"done", "crashed"}
    /\ GetBestBlock(db) < SnapMaxHeight
    /\ \E d \in SnapDeltas(db, ops, GetBestBlock(db) + 1) :
          BatchWriteBegin(d, GetBestBlock(db) + 1)
    /\ UNCHANGED balanceVars

CrashNext ==
    \/ CrashCommit
    \/ BatchWriteRetry
    \/ LoopFlush
    \/ Snapshot
    \/ SnapshotCrash
    \/ FinalChunk

CrashSpec == CrashInit /\ [][CrashNext]_vars

-----------------------------------------------------------------------------
(* Epoch runs on a store whose staking-receive index does not match its coins *)

\* the group of staking coins of these runs
ScanScenarios == {{4, 5, 6}}

\* the stores d with the primary record of one staking coin gone, or replaced by a coin
\* of another kind, while its staking-receive record stays
BrokenStores(d) ==
    UNION {{[x \in DOMAIN d \ {k} |-> d[x]], [d EXCEPT ![k].type = "Point"]} :
              k \in {x \in DOMAIN d : x[1] = "C" /\ d[x].type = "Staking"}}

\* the store holds coins of the group, committed with the block of height 2, and one
\* broken record
ScanInit ==
    /\ ops \in ScanScenarios
    /\ \E S \in SUBSET ops : db \in BrokenStores(Uninterrupted(EmptyDB, CreateDelta(S), 2))
    /\ pc = "done"
    /\ mapCoins = <<>>
    /\ batch = <<>>
    /\ hashBlock = 2
    /\ old_tip = NullHash
    /\ ret = "true"
    /\ delta = <<>>
    /\ db0 = EmptyDB
    /\ flushed = 0
    /\ interrupts = 0
    /\ batch_size = DbBatchSize
    /\ NoQuery
    /\ NoUpgrade

\* the caller commits the next block, after a failure without marker the same block again
ScanCommit ==
    /\ pc \in {"done", "failed"}
    /\ GetBestBlock(db) < SnapMaxHeight
    /\ \E d \in SnapDeltas(db, ops, GetBestBlock(db) + 1) :
          BatchWriteBegin(d, GetBestBlock(db) + 1)
    /\ UNCHANGED balanceVars

\* the caller commits the delta again after a failure that left the marker
ScanRetry == interrupts < MaxInterrupts /\ BatchWriteRetry

ScanNext ==
    \/ ScanCommit
    \/ ScanRetry
    \/ LoopKeep
    \/ LoopFlush
    \/ Snapshot
    \/ FinalChunk

ScanSpec == ScanInit /\ [][ScanNext]_vars

-----------------------------------------------------------------------------
(* GetTopStakingAccounts, lines 903-958 *)

\* the largest n a caller asks for
MaxTopN == 3

\* allStakings after the scan of 914-925: receiver -> sum of the persisted amounts
AllStakings(d) ==
    [a \in {k[2] : k \in StakingReceiveKeys(d)} |->
        SumOf([k \in AccountKeys(d, "s", a) |-> d[k]], AccountKeys(d, "s", a))]

\* selected after the scan: the outpoints of the persisted records
Selected(d) == {k[3] : k \in StakingReceiveKeys(d)}

\* the amount selected holds for the outpoint o
SelectedValue(d, o) == d[CHOOSE k \in StakingReceiveKeys(d) : k[3] = o]

\* one overlay entry applied to allStakings (929-945); ok is false once an assertion
\* has failed
ApplyModifiedCoin(r, d, e) ==
    LET all == r.all
        to == e.coin.receiverID
        left == all[to] - SelectedValue(d, e.outpoint)
    IN  IF ~r.ok \/ ~e.dirty \/ e.coin.type # "Staking" THEN r
        ELSE IF e.outpoint \in Selected(d)
        THEN IF ~e.spent THEN r
             ELSE IF to \notin DOMAIN all THEN [ok |-> FALSE, all |-> all]
             ELSE IF left < 0 THEN [ok |-> FALSE, all |-> all]
             ELSE IF left = 0 THEN [ok |-> TRUE, all |-> [a \in DOMAIN all \ {to} |-> all[a]]]
             ELSE [ok |-> TRUE, all |-> [all EXCEPT ![to] = left]]
        ELSE IF ~e.spent
        THEN [ok |-> TRUE,
              all |-> [a \in DOMAIN all \cup {to} |->
                          IF a = to
                          THEN (IF to \in DOMAIN all THEN all[to] ELSE 0) + e.coin.amount
                          ELSE all[a]]]
        ELSE r

RECURSIVE ApplyModifiedCoins(_, _, _)
\* the loop of 928-946 over the overlay m
ApplyModifiedCoins(r, d, m) ==
    IF m = <<>> THEN r ELSE ApplyModifiedCoins(ApplyModifiedCoin(r, d, Head(m)), d, Tail(m))

\* BalanceBefore that orders by amount ascending
BalanceBefore_Ascending(l, r) ==
    IF l[2] = r[2] THEN l[1] < r[1] ELSE l[2] < r[2]

\* the comparator of 951-955 on pairs <<account id, amount>>
BalanceBefore(l, r) ==
    IF l[2] = r[2] THEN l[1] < r[1] ELSE l[2] > r[2]

RECURSIVE SortBalances(_)
\* the pairs of the set S in the order of the comparator
SortBalances(S) ==
    IF S = {} THEN <<>>
    ELSE LET first == CHOOSE l \in S : \A r \in S \ {l} : BalanceBefore(l, r)
         IN  <<first>> \o SortBalances(S \ {first})

\* GetTopStakingAccounts over the store d with the overlay m: the first min(n, size)
\* pairs of allStakings in the order of the comparator (949-956)
GetTopStakingAccounts(d, n, m) ==
    LET r == ApplyModifiedCoins([ok |-> TRUE, all |-> AllStakings(d)], d, m)
        sorted == SortBalances({<<a, r.all[a]>> : a \in DOMAIN r.all})
        size == IF n < Len(sorted) THEN n ELSE Len(sorted)
    IN  IF ~r.ok THEN [outcome |-> "asserted", topN |-> <<>>]
        ELSE [outcome |-> "returned", topN |-> SubSeq(sorted, 1, size)]

\* the groups of staking coins of a ranking run: three receivers, two of them with equal
\* amounts; a receiver with two coins
TopScenarios == {{4, 10, 12}, {4, 9, 10}}

TopInit ==
    /\ db = EmptyDB
    /\ pc = "idle"
    /\ mapCoins = <<>>
    /\ batch = <<>>
    /\ hashBlock = NullHash
    /\ old_tip = NullHash
    /\ ret = [outcome |-> "none", topN |-> <<>>]
    /\ delta = <<>>
    /\ db0 = EmptyDB
    /\ flushed = 0
    /\ interrupts = 0
    /\ ops \in TopScenarios
    /\ batch_size = DbBatchSize
    /\ NoQuery
    /\ NoUpgrade

\* GetTopStakingAccounts called while no commit is in flight
TopQuery ==
    /\ Callable /\ pc # "queried"
    /\ \E n \in 1..MaxTopN, m \in Deltas(ops) :
          /\ nTop' = n
          /\ mapModifiedCoins' = m
          /\ ret' = GetTopStakingAccounts(db, n, m)
    /\ queriedAccountID' = NullAccountID
    /\ cursor' = cursor
    /\ pc' = "queried"
    /\ UNCHANGED <<db, mapCoins, batch, hashBlock, old_tip, delta, db0, flushed,
                   interrupts, ops, batch_size, upgradeVars>>

TopNext == TopQuery \/ BalCommit \/ LoopKeep \/ LoopFlush \/ Snapshot \/ FinalChunk

TopSpec == TopInit /\ [][TopNext]_vars

-----------------------------------------------------------------------------
(* CAccountCoinsViewDBCursor, lines 322-364, and the cursor factories, lines 575-593 *)

\* the template arguments of the five factories
CursorPrefixes == {"c", "P", "p", "S", "s"}

\* TestKey without the comparison of the account id
TestKey_NoAccountTest(it, prefix, accountID) ==
    IF it = <<>> \/ Head(it)[1][1] # prefix THEN NullOutpoint ELSE Head(it)[1][3]

\* TestKey (353-359): the cached outpoint is that of the iterator's key, and null when the
\* iterator is at its end or on a key of another kind or another account
TestKey(it, prefix, accountID) ==
    IF it = <<>> \/ Head(it)[1][1] # prefix \/ Head(it)[1][2] # accountID
    THEN NullOutpoint
    ELSE Head(it)[1][3]

\* the groups of coins of a cursor run: two owners and receivers, every payload kind
CursorScenarios == {{2, 3, 4, 7}}

\* the accounts a cursor is opened for
CursorAccounts == {2, 3, 6}

CursorInit ==
    /\ ops \in CursorScenarios
    /\ \E S \in SUBSET ops : db = CommittedStore(S)
    /\ pc = "idle"
    /\ mapCoins = <<>>
    /\ batch = <<>>
    /\ hashBlock = NullHash
    /\ old_tip = NullHash
    /\ ret = "none"
    /\ delta = <<>>
    /\ db0 = EmptyDB
    /\ flushed = 0
    /\ interrupts = 0
    /\ batch_size = DbBatchSize
    /\ NoQuery
    /\ NoUpgrade

\* one of the factories of 575-593 and the constructor of 325-330: a new iterator is
\* moved to the first key not before (prefix, account, first outpoint) and tested
CursorOpen ==
    /\ pc \in {"idle", "cursor"}
    /\ \E prefix \in CursorPrefixes, a \in CursorAccounts :
          /\ queriedAccountID' = a
          /\ pcursor' = Cursor(db, <<prefix, a, 0>>)
          /\ cursor' = [DBPrefix |-> prefix,
                        outpoint |-> TestKey(pcursor', prefix, a),
                        seen |-> <<>>]
    /\ pc' = "cursor"
    /\ UNCHANGED <<db, mapCoins, batch, hashBlock, old_tip, ret, delta, db0, flushed,
                   interrupts, ops, batch_size, mapModifiedCoins, nTop, fUpgraded,
                   fRequestShutdown>>

\* the caller reads the key of a valid cursor (332-339, 344) and calls Next (345-348)
CursorAdvance ==
    /\ pc = "cursor"
    /\ cursor.outpoint # NullOutpoint
    /\ pcursor' = Tail(pcursor)
    /\ cursor' = [DBPrefix |-> cursor.DBPrefix,
                  outpoint |-> TestKey(pcursor', cursor.DBPrefix, queriedAccountID),
                  seen |-> Append(cursor.seen, cursor.outpoint)]
    /\ UNCHANGED <<db, pc, mapCoins, batch, hashBlock, old_tip, ret, delta, db0, flushed,
                   interrupts, ops, batch_size, queriedAccountID, mapModifiedCoins, nTop,
                   fUpgraded, fRequestShutdown>>

CursorNext == CursorOpen \/ CursorAdvance

CursorSpec == CursorInit /\ [][CursorNext]_vars

-----------------------------------------------------------------------------
(* Properties *)

\* the index keys a live coin at outpoint o implies
ImpliedKeys(o, coin) ==
    IF coin.outAccountID = NullAccountID THEN {}
    ELSE {<<"c", coin.outAccountID, o>>} \cup
         (CASE coin.type = "BindPlotter" -> {<<"r", coin.outAccountID, o>>}
            [] coin.type = "Point" -> {<<"P", coin.outAccountID, o>>, <<"p", coin.receiverID, o>>}
            [] coin.type = "Staking" -> {<<"S", coin.outAccountID, o>>, <<"s", coin.receiverID, o>>}
            [] OTHER -> {})

IndexKeys(d) == {k \in DOMAIN d : k[1] \in IndexPrefixes}

CoinKeys(d) == {k \in DOMAIN d : k[1] = "C"}

\* the index records of the store are exactly those its primary coin records imply
IndexConsistent(d) ==
    IndexKeys(d) = UNION {ImpliedKeys(k[3], d[k]) : k \in CoinKeys(d)}

\* no snapshot has been triggered: the store holds no pool list
NoSnapshot(d) == \A k \in DOMAIN d : k[1] # "T"

\* the primary and index records of outpoint o
Records(d, o) == [k \in {x \in DOMAIN d : x[1] \in IndexPrefixes \cup {"C"} /\ x[3] = o} |-> d[k]]

InProgress == pc \in {"loop", "final"}

\* C1: after every completed commit, as long as no tip has triggered a snapshot, the
\* index records in the store are exactly those implied by the primary coin records
C1_IndexConsistency ==
    (pc = "done" /\ ret = "true" /\ NoSnapshot(db)) => IndexConsistent(db)

\* a commit has completed and left a live Point coin with its send and receive records,
\* next to no record at all of the unowned and bind-plotter outpoints of another group
C1_Witness ==
    /\ pc = "done" /\ ret = "true" /\ NoSnapshot(db)
    /\ Exists(db, CoinEntry(3))
    /\ Exists(db, PointSendEntry(3, 2)) /\ Exists(db, PointReceiveEntry(3, 3))

\* C2: once a partial chunk of BatchWrite(delta, newTip) is written, and until the final
\* chunk, the tip record is absent and the marker is [newTip, previous tip]; while the
\* store still shows a tip and no marker, no coin record of the commit is in it
C2_MarkerBeforeCoins ==
    /\ (pc \in {"loop", "final", "crashed"} /\ (flushed >= 1 \/ pc = "crashed")) =>
          /\ ~Exists(db, DB_BEST_BLOCK)
          /\ GetHeadBlocks(db) = <<hashBlock, GetBestBlock(db0)>>
    /\ (InProgress /\ Exists(db, DB_BEST_BLOCK) /\ ~Exists(db, DB_HEAD_BLOCKS)) =>
          \A o \in Outpoints : Records(db, o) = Records(db0, o)

\* a commit from a clean tip has written a chunk that created or erased a coin record
C2_Witness ==
    /\ pc = "loop" /\ flushed >= 1 /\ interrupts = 0
    /\ GetBestBlock(db0) # NullHash
    /\ \E o \in Outpoints : Records(db, o) # Records(db0, o)

\* C3: in every state of the store the tip record and the marker are never both present,
\* a marker has two entries, and a returned commit leaves the tip and no marker
C3_CleanOrMidCommit ==
    /\ ~(Exists(db, DB_BEST_BLOCK) /\ Exists(db, DB_HEAD_BLOCKS))
    /\ Exists(db, DB_HEAD_BLOCKS) => Len(db[DB_HEAD_BLOCKS]) = 2
    /\ (pc = "done" /\ ret = "true") =>
          (Exists(db, DB_BEST_BLOCK) /\ ~Exists(db, DB_HEAD_BLOCKS))

\* a crash at a chunk boundary left the store mid-commit
C3_Witness ==
    pc = "crashed" /\ Exists(db, DB_HEAD_BLOCKS) /\ ~Exists(db, DB_BEST_BLOCK)

\* C4: the BatchWrite that completes after one or more interrupted attempts of the same
\* delta and tip leaves the store exactly as one uninterrupted BatchWrite of that delta
\* on the store the first attempt found
C4_RetryIdempotent ==
    [][(pc = "final" /\ pc' = "done" /\ interrupts >= 1) =>
          db' = Uninterrupted(db0, delta, hashBlock)]_vars

\* a retry after two interrupted attempts is about to write its final chunk, and the
\* delta created or spent a coin
C4_Witness ==
    /\ pc = "final" /\ interrupts >= 2
    /\ \E i \in 1..Len(delta) : delta[i].dirty

\* C5: a retry after an interruption takes the marker's second entry as previous tip,
\* so through all interrupted attempts the marker stays [newTip, last clean tip]
C5_MarkerKeepsCleanTip ==
    (interrupts >= 1 /\ Exists(db, DB_HEAD_BLOCKS)) =>
        /\ db[DB_HEAD_BLOCKS] = <<hashBlock, GetBestBlock(db0)>>
        /\ InProgress => old_tip = GetBestBlock(db0)

\* the second retry of a commit from a clean tip has written its first chunk
C5_Witness ==
    /\ pc = "loop" /\ interrupts >= 2 /\ flushed >= 1
    /\ GetBestBlock(db0) # NullHash
    /\ db[DB_HEAD_BLOCKS][2] = GetBestBlock(db0)

\* C6 as stated: after a failed physical write the failure is reported, the marker is
\* present and no tip record is
C6_Original ==
    pc = "failed" => (ret = "error" /\ Exists(db, DB_HEAD_BLOCKS) /\ ~Exists(db, DB_BEST_BLOCK))

\* C6 amended: a failed physical write ends the call with an error and stores nothing;
\* the marker is present (and the tip absent) exactly if a chunk had been written before,
\* in this attempt or an interrupted one; otherwise the tip record is the one the commit
\* found
C6_FailureLeavesMarkerIfFlushed ==
    [][(pc # "failed" /\ pc' = "failed") =>
          /\ ret' = "error"
          /\ db' = db
          /\ Exists(db', DB_HEAD_BLOCKS) <=> (flushed >= 1 \/ interrupts >= 1)
          /\ Exists(db', DB_HEAD_BLOCKS) => ~Exists(db', DB_BEST_BLOCK)
          /\ ~Exists(db', DB_HEAD_BLOCKS) => GetBestBlock(db') = GetBestBlock(db0)]_vars

\* a physical write failed after a partial chunk had been written
C6_Witness ==
    pc = "failed" /\ ret = "error" /\ Exists(db, DB_HEAD_BLOCKS) /\ interrupts = 1

\* C7: in every state of the store, mid-commit and after a crash included, each outpoint
\* of the delta has its primary record and all of its index records, or none of them
C7_WholeRecordsPerChunk ==
    \A o \in Outpoints :
        {k \in IndexKeys(db) : k[3] = o} =
            (IF Exists(db, CoinEntry(o)) THEN ImpliedKeys(o, db[CoinEntry(o)]) ELSE {})

\* a crash after a chunk that wrote a staking coin with its three index records, while
\* the other entry of the delta was not written
C7_Witness ==
    /\ pc = "crashed"
    /\ Exists(db, CoinEntry(5)) /\ Exists(db, StakingReceiveEntry(5, 2))
    /\ \E i \in 1..Len(delta) :
          delta[i].dirty /\ delta[i].outpoint = 4 /\ Records(db, 4) = Records(db0, 4)
          /\ Exists(db0, CoinEntry(4)) = ~delta[i].spent

\* C8: when BatchWrite has returned success GetBestBlock is the new tip and GetHeadBlocks
\* is empty; with no tip record stored GetBestBlock is the null hash
C8_TipAfterSuccess ==
    /\ (pc = "done" /\ ret = "true") =>
          (GetBestBlock(db) = hashBlock /\ GetHeadBlocks(db) = <<>>)
    /\ ~Exists(db, DB_BEST_BLOCK) => GetBestBlock(db) = NullHash

\* a commit to the tip of height 5 has returned success
C8_Witness ==
    pc = "done" /\ ret = "true" /\ hashBlock = 5 /\ db[DB_BEST_BLOCK] = 5

\* an outpoint for which the delta in progress holds no dirty entry
NotDirty(o) == \A i \in 1..Len(delta) : delta[i].outpoint = o => ~delta[i].dirty

\* C9: no step of BatchWrite changes a primary or index record of an outpoint for which
\* the delta holds no entry with the dirty flag
C9_OnlyDirtyEntries ==
    [][\A o \in Outpoints : NotDirty(o) => Records(db', o) = Records(db, o)]_vars

\* the loop has iterated a delta with an entry without the dirty flag and a dirty one,
\* and a chunk has been written
C9_Witness ==
    /\ pc = "final" /\ flushed >= 1
    /\ \E i, j \in 1..Len(delta) : ~delta[i].dirty /\ delta[j].dirty

-----------------------------------------------------------------------------
(* Properties of the epoch snapshot, on the store right after the snapshot was written *)

\* the snapshot of the block being committed has just been written
SnapState == pc = "final" /\ SnapshotTriggered(LookupBlockIndex(hashBlock).nHeight)

EpochHeight == LookupBlockIndex(hashBlock).nHeight

\* the persisted staking coins
StakingCoinKeys == {k \in DOMAIN db : k[1] = "C" /\ db[k].type = "Staking"}

Unexpired(coin) == coin.nHeight + coin.lockBlocks >= EpochHeight

FromGenesis(coin) == coin.outAccountID = consensusParams.SaturnStakingGenesisID

\* a coin of the genesis account that meets the registration amount for its height
Registers(coin) ==
    FromGenesis(coin) /\ coin.nValue >= GetInitialStakingPoolAmount(coin.nHeight)

\* pool ids that have a registering coin
RegisteredPools == {db[k].receiverID : k \in {x \in StakingCoinKeys : Registers(db[x])}}

\* the unexpired deposits to pool p
DepositsTo(p) ==
    {k \in StakingCoinKeys : ~FromGenesis(db[k]) /\ db[k].receiverID = p /\ Unexpired(db[k])}

AmountOf(K) == SumOf([k \in K |-> db[k].amount], K)

\* the pool list and the user lists persisted for the epoch
PoolList == db[StakingPoolEntry(hashBlock)]

UserList(p) ==
    IF Exists(db, StakingPoolUsersEntry(hashBlock, p))
    THEN db[StakingPoolUsersEntry(hashBlock, p)] ELSE <<>>

ListedPools == {PoolList[i].poolID : i \in DOMAIN PoolList}

\* C11: in the persisted snapshot each user's stake in a pool is the sum of the amounts of
\* the persisted unexpired staking coins of that user to that pool, and each pool's total
\* stake is the sum of its persisted users' stakes
C11_StakeSums ==
    SnapState =>
        \A i \in DOMAIN PoolList :
            LET p == PoolList[i].poolID
                ul == UserList(p)
            IN  /\ \A j \in DOMAIN ul :
                      ul[j].stakeAmount =
                          AmountOf({k \in StakingCoinKeys :
                                       /\ db[k].outAccountID = ul[j].accountID
                                       /\ db[k].receiverID = p
                                       /\ Unexpired(db[k])})
                /\ PoolList[i].stakeAmount =
                      SumSeq([j \in DOMAIN ul |-> ul[j].stakeAmount], Len(ul))

\* deposits of 7 + 2 by account 3 and of 2 by account 6 to the registered pool 2 give
\* the total 11 with the user entries 9 then 2
C11_Witness ==
    /\ SnapState /\ Len(PoolList) = 1
    /\ PoolList[1].poolID = 2 /\ PoolList[1].stakeAmount = 11
    /\ Len(UserList(2)) = 2
    /\ UserList(2)[1].accountID = 3 /\ UserList(2)[1].stakeAmount = 9
    /\ UserList(2)[2].accountID = 6 /\ UserList(2)[2].stakeAmount = 2

\* C12: a deposit counts in the snapshot at height H iff its creation height plus its
\* lockBlocks is at least H: the total stake of every listed pool is the sum of the
\* amounts of exactly those deposits to it
C12_LockWindow ==
    SnapState =>
        \A i \in DOMAIN PoolList :
            PoolList[i].stakeAmount =
                AmountOf({k \in StakingCoinKeys :
                             /\ ~FromGenesis(db[k])
                             /\ db[k].receiverID = PoolList[i].poolID
                             /\ db[k].nHeight + db[k].lockBlocks >= EpochHeight})

\* at height 4 the store holds a deposit whose window ends at 4 and one whose window
\* ended at 3: the first is in the total, the second is not
C12_Witness ==
    /\ SnapState /\ EpochHeight = 4
    /\ Exists(db, CoinEntry(7)) /\ db[CoinEntry(7)].nHeight + db[CoinEntry(7)].lockBlocks = 4
    /\ Exists(db, CoinEntry(8)) /\ db[CoinEntry(8)].nHeight + db[CoinEntry(8)].lockBlocks = 3
    /\ ~Exists(db, CoinEntry(4)) /\ ~Exists(db, CoinEntry(6))
    /\ Len(PoolList) = 1 /\ PoolList[1].stakeAmount = db[CoinEntry(7)].amount

\* C13 as stated: an unexpired staking coin of the genesis account below the registration
\* amount, sent to a listed pool, is a stake of the genesis account in that pool
C13_Original ==
    SnapState =>
        \A k \in StakingCoinKeys :
            (/\ FromGenesis(db[k]) /\ ~Registers(db[k]) /\ Unexpired(db[k])
             /\ db[k].receiverID \in ListedPools) =>
                \E j \in DOMAIN UserList(db[k].receiverID) :
                    UserList(db[k].receiverID)[j].accountID = db[k].outAccountID

\* C13 amended: a staking coin of the genesis account registers the receiving pool only
\* if its value meets the registration amount for its height; below it the coin is
\* skipped: it registers nothing and is no stake, so the genesis account is in no user
\* list and its coins are in no total
C13_GenesisBelowMinimumSkipped ==
    SnapState =>
        \A i \in DOMAIN PoolList :
            LET p == PoolList[i].poolID
                ul == UserList(p)
            IN  /\ \E k \in StakingCoinKeys :
                      /\ Registers(db[k]) /\ db[k].receiverID = p
                      /\ PoolList[i].outpoint = k[3]
                /\ \A j \in DOMAIN ul :
                      ul[j].accountID # consensusParams.SaturnStakingGenesisID
                /\ PoolList[i].stakeAmount = AmountOf(DepositsTo(p))

\* pool 2 is registered and listed with a deposit while an unexpired coin of the genesis
\* account below the registration amount is stored for it
C13_Witness ==
    /\ SnapState /\ 2 \in ListedPools
    /\ Exists(db, CoinEntry(11)) /\ ~Registers(db[CoinEntry(11)])
    /\ Unexpired(db[CoinEntry(11)])
    /\ Exists(db, CoinEntry(4)) /\ Exists(db, CoinEntry(5))

\* the account ids of the model
AccountIDs == 1..7

\* pool ids with a registering coin among the coins of the staking-receive index
RegisteredInIndex ==
    {k[2] : k \in {x \in DOMAIN db : /\ x[1] = "s"
                                      /\ Exists(db, CoinEntry(x[3]))
                                      /\ Registers(db[CoinEntry(x[3])])}}

\* C14: the snapshot persisted for an epoch has no pool entry and no user list for a pool
\* id without a registering genesis coin in the staking-receive index, whatever deposits
\* were made to it
C14_UnregisteredPoolsDiscarded ==
    SnapState =>
        \A p \in AccountIDs \ RegisteredInIndex :
            /\ p \notin ListedPools
            /\ ~Exists(db, StakingPoolUsersEntry(hashBlock, p))

\* an unexpired deposit to the unregistered pool 5 is stored next to a listed pool
C14_Witness ==
    /\ SnapState /\ ListedPools = {2}
    /\ Exists(db, CoinEntry(12)) /\ Unexpired(db[CoinEntry(12)])
    /\ db[CoinEntry(12)].receiverID \notin RegisteredInIndex

\* C15 as stated: every registered pool has one entry in the pool list, a pool without
\* unexpired deposits with the total stake 0
C15_Original ==
    SnapState =>
        \A p \in RegisteredPools :
            /\ Cardinality({i \in DOMAIN PoolList : PoolList[i].poolID = p}) = 1
            /\ \A i \in DOMAIN PoolList :
                  PoolList[i].poolID = p => PoolList[i].stakeAmount = AmountOf(DepositsTo(p))

\* C15 amended: the pool list has one entry, with a registering outpoint and the new
\* total stake, for exactly the registered pools that have an unexpired deposit; a
\* registered pool without one is not in the list
C15_PoolsWithDeposits ==
    SnapState =>
        /\ ListedPools = {p \in RegisteredPools : DepositsTo(p) # {}}
        /\ \A i, j \in DOMAIN PoolList : PoolList[i].poolID = PoolList[j].poolID => i = j
        /\ \A i \in DOMAIN PoolList :
              /\ Exists(db, CoinEntry(PoolList[i].outpoint))
              /\ Registers(db[CoinEntry(PoolList[i].outpoint)])
              /\ db[CoinEntry(PoolList[i].outpoint)].receiverID = PoolList[i].poolID
              /\ PoolList[i].stakeAmount > 0

\* pool 4 is registered and has no deposit: the list holds pool 2 only
C15_Witness ==
    /\ SnapState /\ RegisteredPools = {2, 4}
    /\ DepositsTo(4) = {} /\ DepositsTo(2) # {}
    /\ Len(PoolList) = 1 /\ PoolList[1].poolID = 2

\* C16: every persisted pool list is ordered by stake descending, ties by pool id
\* ascending, and every persisted user list by stake descending, ties by account id
\* ascending, whichever order the in-memory maps were iterated in
C16_ListsSorted ==
    SnapState =>
        /\ \A i, j \in DOMAIN PoolList :
              i < j => \/ PoolList[i].stakeAmount > PoolList[j].stakeAmount
                       \/ /\ PoolList[i].stakeAmount = PoolList[j].stakeAmount
                          /\ PoolList[i].poolID < PoolList[j].poolID
        /\ \A p \in ListedPools :
              \A i, j \in DOMAIN UserList(p) :
                  i < j => \/ UserList(p)[i].stakeAmount > UserList(p)[j].stakeAmount
                           \/ /\ UserList(p)[i].stakeAmount = UserList(p)[j].stakeAmount
                              /\ UserList(p)[i].accountID < UserList(p)[j].accountID

\* two pools with the same total stake are listed, and one of them has two users
C16_Witness ==
    /\ SnapState /\ Len(PoolList) = 2
    /\ PoolList[1].stakeAmount = PoolList[2].stakeAmount
    /\ PoolList[1].poolID = 2 /\ PoolList[2].poolID = 4

\* the pool list and the user lists persisted for the previous epoch
PrevPoolList ==
    IF Exists(db, StakingPoolEntry(PrevEpochHash(hashBlock)))
    THEN db[StakingPoolEntry(PrevEpochHash(hashBlock))] ELSE <<>>

PrevUserList(p) ==
    IF Exists(db, StakingPoolUsersEntry(PrevEpochHash(hashBlock), p))
    THEN db[StakingPoolUsersEntry(PrevEpochHash(hashBlock), p)] ELSE <<>>

\* the previous epoch's entries of user u in pool p: none or one
PrevEntries(p, u) ==
    {PrevUserList(p)[i] : i \in {x \in DOMAIN PrevUserList(p) : PrevUserList(p)[x].accountID = u}}

\* the total stake of pool p in the previous epoch's pool list
PriorPoolTotal(p) ==
    LET at == {i \in DOMAIN PrevPoolList : PrevPoolList[i].poolID = p}
    IN  IF at = {} THEN 0 ELSE PrevPoolList[CHOOSE i \in at : TRUE].stakeAmount

\* the amount carried from the previous entry pre of pool p
CarriedFrom(p, pre) ==
    IF pre.withdrawableAmount >= PROTOCOL_SATURN_STAKING_MIN_WITHDRAWABLE_AMOUNT
    THEN IF Exists(db, CoinEntry(CreateStakePendingCoinOutPoint(PrevEpochHash(hashBlock), p,
                                                                pre.accountID)))
         THEN pre.withdrawableAmount ELSE 0
    ELSE pre.withdrawableAmount

\* C17 as stated: the reward added for a carried user is the pool's reward times the
\* user's prior stake divided, with truncation, by that same pool's prior total stake
C17_Original ==
    SnapState =>
        \A p \in ListedPools :
            \A j \in DOMAIN UserList(p) :
                \A pre \in PrevEntries(p, UserList(p)[j].accountID) :
                    UserList(p)[j].withdrawableAmount =
                        CarriedFrom(p, pre)
                        + (IF PriorPoolTotal(p) = 0 THEN 0
                           ELSE (PrevEpochReward(hashBlock, p) * pre.stakeAmount)
                                    \div PriorPoolTotal(p))

\* the reward additions of the snapshot for pool p, per carried user
AddedIn(p) ==
    [j \in {x \in DOMAIN UserList(p) : PrevEntries(p, UserList(p)[x].accountID) # {}} |->
        LET pre == CHOOSE x \in PrevEntries(p, UserList(p)[j].accountID) : TRUE
        IN  UserList(p)[j].withdrawableAmount - CarriedFrom(p, pre)]

\* the prior stakes of the carried users of pool p
PriorStakeIn(p) ==
    [j \in {x \in DOMAIN UserList(p) : PrevEntries(p, UserList(p)[x].accountID) # {}} |->
        (CHOOSE x \in PrevEntries(p, UserList(p)[j].accountID) : TRUE).stakeAmount]

C19_CarryForward ==
    SnapState =>
        \A p \in ListedPools :
            \A j \in DOMAIN UserList(p) :
                \A pre \in PrevEntries(p, UserList(p)[j].accountID) :
                    UserList(p)[j].withdrawableAmount - RewardAdded(db, hashBlock, p, pre) =
                        IF pre.withdrawableAmount < PROTOCOL_SATURN_STAKING_MIN_WITHDRAWABLE_AMOUNT
                        THEN pre.withdrawableAmount
                        ELSE IF Exists(db, CoinEntry(CreateStakePendingCoinOutPoint(
                                          PrevEpochHash(hashBlock), p, pre.accountID)))
                             THEN pre.withdrawableAmount
                             ELSE 0

\* a user whose previous withdrawable amount met the threshold has spent the withdrawal
\* coin, and another user's amount below the threshold is carried
C19_Witness ==
    /\ SnapState
    /\ \E j \in DOMAIN UserList(2) :
          \E pre \in PrevEntries(2, UserList(2)[j].accountID) :
              /\ pre.withdrawableAmount >= PROTOCOL_SATURN_STAKING_MIN_WITHDRAWABLE_AMOUNT
              /\ ~Exists(db, CoinEntry(CreateStakePendingCoinOutPoint(
                             PrevEpochHash(hashBlock), 2, pre.accountID)))
    /\ \E j \in DOMAIN UserList(2) :
          \E pre \in PrevEntries(2, UserList(2)[j].accountID) :
              /\ pre.withdrawableAmount > 0
              /\ pre.withdrawableAmount < PROTOCOL_SATURN_STAKING_MIN_WITHDRAWABLE_AMOUNT
              /\ UserList(2)[j].withdrawableAmount > pre.withdrawableAmount

\* C20: the store holds a coin at the outpoint of (epoch hash, pool, user) iff the user is
\* in the pool's new list with a withdrawable amount of at least the threshold, and the
\* coin's value is that amount
C20_WithdrawalCoins ==
    SnapState =>
        \A p, a \in AccountIDs :
            LET o == CreateStakePendingCoinOutPoint(hashBlock, p, a)
                at == {j \in DOMAIN UserList(p) : UserList(p)[j].accountID = a}
            IN  IF \E j \in at : UserList(p)[j].withdrawableAmount
                                     >= PROTOCOL_SATURN_STAKING_MIN_WITHDRAWABLE_AMOUNT
                THEN /\ Exists(db, CoinEntry(o))
                     /\ \A j \in at : db[CoinEntry(o)].nValue = UserList(p)[j].withdrawableAmount
                     /\ db[CoinEntry(o)].outAccountID = a
                ELSE ~Exists(db, CoinEntry(o))

\* the snapshot wrote a coin of value 15 for one user of pool 2 and none for the user
\* whose withdrawable amount is 4
C20_Witness ==
    /\ SnapState /\ Len(UserList(2)) = 2
    /\ UserList(2)[1].withdrawableAmount = 15 /\ UserList(2)[2].withdrawableAmount = 4
    /\ Exists(db, CoinEntry(CreateStakePendingCoinOutPoint(hashBlock, 2,
                                                            UserList(2)[1].accountID)))
    /\ ~Exists(db, CoinEntry(CreateStakePendingCoinOutPoint(hashBlock, 2,
                                                             UserList(2)[2].accountID)))

-----------------------------------------------------------------------------
(* Properties of the snapshot records across commits *)

\* the pool list and the user lists stored for the epoch hash E
EpochRecords(d, E) ==
    [k \in {x \in DOMAIN d : x[1] \in {"T", "t"} /\ x[2] = E} |-> d[k]]

\* C21 as stated: once the pool list of an epoch hash is stored, no step changes the pool
\* list or the user lists stored for that epoch hash
C21_Original ==
    [][\A E \in Hashes :
          Exists(db, StakingPoolEntry(E)) => EpochRecords(db', E) = EpochRecords(db, E)]_vars

\* C22: whichever iteration order of the hash maps a run of the snapshot takes, the
\* store after it is the one a run in ascending order produces, so two runs over
\* identical persisted state write identical pool and user lists; and a second run right
\* after the first, in either order, changes nothing in the store
C22_SnapshotDeterministic ==
    [][(pc = "loop" /\ pc' = "final"
           /\ SnapshotTriggered(LookupBlockIndex(hashBlock).nHeight)) =>
          /\ TrySnapshotStakingPoolStatus(db, hashBlock, FALSE) = db'
          /\ \A rev \in BOOLEAN : TrySnapshotStakingPoolStatus(db', hashBlock, rev) = db']_vars

\* a snapshot is about to run over a store with two pools, one of them with two users
\* of different stake and a reward to share
C22_Witness ==
    /\ pc = "loop" /\ mapCoins = <<>>
    /\ SnapshotTriggered(LookupBlockIndex(hashBlock).nHeight)
    /\ Len(SnapshotPools(db, hashBlock, FALSE)) = 2
    /\ Len(SnapshotUsers(db, hashBlock, 2, FALSE)) = 2
    /\ PoolUsers(db, hashBlock, 2, TRUE) # PoolUsers(db, hashBlock, 2, FALSE)
    /\ \E i \in 1..2 : SnapshotUsers(db, hashBlock, 2, FALSE)[i].withdrawableAmount > 0

-----------------------------------------------------------------------------
(* Properties of the balance query *)

\* a balance query has just returned for the store db
Queried == pc = "queried"

\* the store after the overlay of the last query is committed to db
Committed == Uninterrupted(db, mapModifiedCoins, BalTip)

\* the balances of account a implied by the primary coin records of d alone
RefBalance(d, a) ==
    LET owned == {k \in CoinKeys(d) : d[k].outAccountID = a}
        of(kind) == {k \in owned : d[k].type = kind}
        to(kind) == {k \in CoinKeys(d) : /\ d[k].type = kind /\ d[k].receiverID = a
                                         /\ d[k].outAccountID # NullAccountID}
    IN  [outcome |-> "returned",
         availableBalance |-> SumOf([k \in owned |-> d[k].nValue], owned),
         balanceBindPlotter |-> Cardinality(of("BindPlotter")) * PROTOCOL_BINDPLOTTER_LOCKAMOUNT,
         balancePoint |-> <<SumOf([k \in of("Point") |-> d[k].nValue], of("Point")),
                            SumOf([k \in to("Point") |-> d[k].amount], to("Point"))>>,
         balanceStaking |-> <<SumOf([k \in of("Staking") |-> d[k].nValue], of("Staking")),
                              SumOf([k \in to("Staking") |-> d[k].amount], to("Staking"))>>]

C24_NonNegative ==
    Queried =>
        /\ ret.outcome = "returned"
        /\ ret.availableBalance >= 0 /\ ret.balanceBindPlotter >= 0
        /\ \A i \in 1..2 : ret.balancePoint[i] >= 0 /\ ret.balanceStaking[i] >= 0

\* a query with an overlay that spends every coin the account holds in the store, and a
\* coin of the account that the store does not hold
C24_Witness ==
    /\ Queried /\ queriedAccountID = 3
    /\ Exists(db, CoinEntry(4)) /\ ~Exists(db, CoinEntry(7)) /\ Exists(db, CoinEntry(3))
    /\ \E i, j, k \in DOMAIN mapModifiedCoins :
          /\ mapModifiedCoins[i] = Entry(3, TRUE, TRUE)
          /\ mapModifiedCoins[j] = Entry(4, TRUE, TRUE)
          /\ mapModifiedCoins[k] = Entry(7, TRUE, TRUE)
    /\ ret.availableBalance = 0 /\ ret.balanceStaking = <<0, 0>> /\ ret.balancePoint = <<0, 0>>

C26_PointSpendErasesBoth ==
    [][\A o \in Outpoints :
          (/\ Exists(db, CoinEntry(o)) /\ db[CoinEntry(o)].type = "Point"
           /\ ~Exists(db', CoinEntry(o))) =>
              LET coin == db[CoinEntry(o)]
              IN  /\ ~Exists(db', PointSendEntry(o, coin.outAccountID))
                  /\ ~Exists(db', PointReceiveEntry(o, coin.receiverID))
                  /\ GetAccountBalance(db', coin.outAccountID, <<>>).balancePoint[1]
                        = RefBalance(db', coin.outAccountID).balancePoint[1]
                  /\ GetAccountBalance(db', coin.receiverID, <<>>).balancePoint[2]
                        = RefBalance(db', coin.receiverID).balancePoint[2]
                  /\ GetAccountBalance(db', coin.outAccountID, <<>>).balancePoint[1]
                        = GetAccountBalance(db, coin.outAccountID, <<>>).balancePoint[1]
                            - coin.nValue
                  /\ GetAccountBalance(db', coin.receiverID, <<>>).balancePoint[2]
                        = GetAccountBalance(db, coin.receiverID, <<>>).balancePoint[2]
                            - coin.amount]_vars

\* a commit that spends the stored point coin has written the chunk with the erasures
C26_Witness ==
    /\ pc \in {"loop", "final"}
    /\ Exists(db0, CoinEntry(3)) /\ Exists(db0, PointSendEntry(3, 2))
    /\ Exists(db0, PointReceiveEntry(3, 3))
    /\ \E i \in DOMAIN delta : delta[i] = Entry(3, TRUE, TRUE)
    /\ ~Exists(db, CoinEntry(3))
    /\ GetAccountBalance(db0, 2, <<>>).balancePoint[1] = 2
    /\ GetAccountBalance(db, 2, <<>>).balancePoint[1] = 0
    /\ GetAccountBalance(db0, 3, <<>>).balancePoint[2] = 4
    /\ GetAccountBalance(db, 3, <<>>).balancePoint[2] = 0

-----------------------------------------------------------------------------
(* Properties of Upgrade *)

\* the index records of the store d
IndexRecords(d) == {k \in DOMAIN d : k[1] \in IndexPrefixes}

\* the index operations BatchWrite makes for the coins of the store d
ImpliedIndexOps(d) ==
    UNION {{WriteIndex([outpoint |-> k[3], coin |-> d[k]])[i] :
               i \in 1..Len(WriteIndex([outpoint |-> k[3], coin |-> d[k]]))} :
           k \in {x \in DOMAIN d : x[1] = "C"}}

\* the index records of d without a coin record of their outpoint in d
StaleRecords(d) == {k \in IndexRecords(d) : ~Exists(d, CoinEntry(k[3]))}

\* d is d0 with exactly the index records of its coins and the current version
Rebuilt(d0, d) ==
    /\ DOMAIN d \ IndexRecords(d) = (DOMAIN d0 \ IndexRecords(d0)) \cup {DB_COIN_VERSION}
    /\ \A k \in DOMAIN d0 \ (IndexRecords(d0) \cup {DB_COIN_VERSION}) : d[k] = d0[k]
    /\ d[DB_COIN_VERSION] = DB_VERSION
    /\ IndexRecords(d) = {o.k : o \in ImpliedIndexOps(d0)}
    /\ \A o \in ImpliedIndexOps(d0) : d[o.k] = o.v

\* C27: an Upgrade that runs to its end on a store with coin records and no, some or
\* stale index records leaves the store with exactly the index records of its coins and
\* the current version; the Upgrade call after it changes nothing in the store and
\* reports fUpgraded = false.
C27_UpgradeRebuilds ==
    [][/\ (pc = "version" /\ pc' = "done") => Rebuilt(db0, db')
       /\ (pc \in {"idle", "done"} /\ fUpgraded /\ pc' # "idle")
             => (db' = db /\ fUpgraded' = FALSE /\ ret' = "true")]_vars

\* an Upgrade ended on a store that had coins with owners, index records of coins that
\* are not in the store and lacked index records of coins that are
C27_Witness ==
    /\ pc = "done" /\ fUpgraded
    /\ StaleRecords(db0) # {}
    /\ \E o \in ImpliedIndexOps(db0) : ~Exists(db0, o.k)
    /\ Rebuilt(db0, db)

\* C28 as stated: an Upgrade that returns false has left the version record absent.
C28_Original == (pc = "done" /\ ret = "false") => ~Exists(db, DB_COIN_VERSION)

\* C30 as stated: an Upgrade that met an index record without a coin does not succeed
\* and writes no version record.
C30_Original ==
    (pc = "done" /\ fUpgraded /\ StaleRecords(db0) # {})
        => (ret # "true" /\ ~Exists(db, DB_COIN_VERSION))

\* C30: an Upgrade that runs to its end has erased every index record without a coin,
\* written the current version, and returns false only after a shutdown request.
C30_StaleErased ==
    (pc = "done" /\ fUpgraded)
        => /\ StaleRecords(db) = {}
           /\ VersionCurrent(db)
           /\ (ret = "false" <=> fRequestShutdown)
           /\ ret \in {"true", "false"}

\* an Upgrade returned true on a store that had index records without a coin
C30_Witness ==
    /\ pc = "done" /\ fUpgraded /\ ret = "true"
    /\ StaleRecords(db0) # {}
    /\ StaleRecords(db) = {}

-----------------------------------------------------------------------------
(* Properties of the snapshot's partial writes *)

\* the store holds a user list or a withdrawal coin of the epoch block h
SnapshotPartOf(d, h) ==
    \/ \E k \in DOMAIN d : k[1] = "t" /\ k[2] = h
    \/ \E k \in PendingCoinKeys(d) : (k[3] - 1000) \div 100 = h

\* C29 as stated: in no state of the store does a user list or a withdrawal coin of an
\* epoch block exist while the pool list of that block does not.
C29_Original ==
    \A h \in 1..SnapMaxHeight : SnapshotPartOf(db, h) => Exists(db, StakingPoolEntry(h))

-----------------------------------------------------------------------------
(* Properties of the snapshot within the commit *)

\* the step of lines 509-510 on an epoch block
SnapshotStep ==
    /\ pc = "loop" /\ pc' = "final"
    /\ SnapshotTriggered(LookupBlockIndex(hashBlock).nHeight)

\* C31 as stated: the snapshot of the new tip is computed over the store with every
\* entry of the delta in it, those still in the batch included.
C31_Original ==
    [][SnapshotStep =>
          \E rev \in BOOLEAN :
              db' = ApplyBatch(db, SnapshotWrites(ApplyBatch(db, batch), hashBlock, rev))]_vars

\* the store holds a record the snapshot of the epoch block h wrote
SnapshotRecordOf(d, h) == Exists(d, StakingPoolEntry(h)) \/ SnapshotPartOf(d, h)

\* C32 as stated: in no state of the store are snapshot records of a block present while
\* the tip record still holds an older tip and no head-blocks marker is stored.
C32_Original ==
    \A h \in 1..SnapMaxHeight :
        (SnapshotRecordOf(db, h) /\ GetBestBlock(db) # NullHash /\ GetBestBlock(db) < h)
            => Exists(db, DB_HEAD_BLOCKS)

\* C33 as stated: every withdrawal coin in the store has the account-index record of
\* its owner and outpoint, with the coin's value.
C33_Original ==
    \A k \in PendingCoinKeys(db) :
        /\ Exists(db, CoinIndexEntry(k[3], db[k].outAccountID))
        /\ db[CoinIndexEntry(k[3], db[k].outAccountID)] = db[k].nValue

\* the withdrawal coins of the user a in the pool p, of every epoch
WithdrawalCoinsOf(d, p, a) ==
    {k \in PendingCoinKeys(d) : \E h \in 1..SnapMaxHeight :
                                    k[3] = CreateStakePendingCoinOutPoint(h, p, a)}

\* the withdrawable amount of the user a in the pool p in the latest snapshot stored
LatestWithdrawable(d, p, a) ==
    LET hs == {h \in 1..SnapMaxHeight : Exists(d, StakingPoolEntry(h))}
        last == CHOOSE h \in hs : \A x \in hs : x <= h
    IN  IF hs = {} \/ ~Exists(d, StakingPoolUsersEntry(last, p)) THEN 0
        ELSE LET l == d[StakingPoolUsersEntry(last, p)]
                 at == {j \in 1..Len(l) : l[j].accountID = a}
             IN  SumOf([j \in at |-> l[j].withdrawableAmount], at)

\* C34 as stated: after every commit the values of a user's withdrawal coins in a pool,
\* over all epochs, sum to no more than the user's withdrawable amount in the latest
\* snapshot.
C34_Original ==
    pc = "done" =>
        \A p, a \in AccountIDs :
            SumOf([k \in WithdrawalCoinsOf(db, p, a) |-> db[k].nValue],
                  WithdrawalCoinsOf(db, p, a)) <= LatestWithdrawable(db, p, a)

\* the user u has an unexpired deposit to the pool p in the store
HasDeposit(p, u) == \E k \in DepositsTo(p) : db[k].outAccountID = u

\* C35: a user of a pool's previous list who has no unexpired deposit to the pool at the
\* new epoch boundary has no entry in the pool's new list and no withdrawal coin of the
\* new epoch: neither a reward share nor a carried amount is recorded for them.
C35_OnlyDepositors ==
    SnapState =>
        \A p \in AccountIDs :
            \A i \in DOMAIN PrevUserList(p) :
                LET u == PrevUserList(p)[i].accountID
                IN  ~HasDeposit(p, u) =>
                        /\ \A j \in DOMAIN UserList(p) : UserList(p)[j].accountID # u
                        /\ ~Exists(db, CoinEntry(CreateStakePendingCoinOutPoint(hashBlock, p, u)))

\* a user of pool 2 with a stake and a withdrawable amount in the previous list has no
\* deposit any more, while the pool still has users
C35_Witness ==
    /\ SnapState
    /\ UserList(2) # <<>>
    /\ \E i \in DOMAIN PrevUserList(2) :
          /\ PrevUserList(2)[i].stakeAmount > 0
          /\ PrevUserList(2)[i].withdrawableAmount > 0
          /\ ~HasDeposit(2, PrevUserList(2)[i].accountID)
          /\ \A j \in DOMAIN UserList(2) :
                UserList(2)[j].accountID # PrevUserList(2)[i].accountID

-----------------------------------------------------------------------------
(* Properties of the calls on a store in mid-commit state *)

\* C36: on a store with no tip record and a two-entry head-blocks marker, a call of
\* BatchWrite leaves the store as it is, marker included, and either its tip is the
\* marker's first entry or it ends in the failed assertion.
C36_AssertBeforeWrite ==
    [][(Callable /\ Pending /\ GetBestBlock(db) = NullHash /\ pc' # pc)
          => /\ db' = db
             /\ \/ pc' = "asserted" /\ ret' = "abort"
                \/ pc' = "loop" /\ hashBlock' = GetHeadBlocks(db)[1]]_vars

\* a call with another tip than the marker's first entry has failed its assertion
C36_Witness ==
    /\ pc = "asserted" /\ ret = "abort"
    /\ Len(GetHeadBlocks(db)) = 2
    /\ GetBestBlock(db) = NullHash

-----------------------------------------------------------------------------
(* Properties of the version record during Upgrade *)

\* the index records of the store d are exactly those of its coins
IndexRebuilt(d) ==
    /\ IndexRecords(d) = {o.k : o \in ImpliedIndexOps(d)}
    /\ \A o \in ImpliedIndexOps(d) : d[o.k] = o.v

\* C37: while Upgrade erases and rebuilds the index records, and after it was left by a
\* crash or by an undecodable coin record, the store holds no version record; a store
\* whose version record is the current version has exactly the index records of its
\* coins.
C37_VersionBrackets ==
    /\ pc \in {"clear", "index", "version", "crashed", "failed"}
          => ~Exists(db, DB_COIN_VERSION)
    /\ VersionCurrent(db) => IndexRebuilt(db)

\* Upgrade, called on a store with an older version record, died with the index partly
\* rebuilt: the version record is gone
C37_Witness ==
    /\ pc = "crashed"
    /\ Exists(db0, DB_COIN_VERSION)
    /\ ~Exists(db, DB_COIN_VERSION)
    /\ ~IndexRebuilt(db)
    /\ IndexRecords(db) # {}
    /\ IndexRecords(db) # IndexRecords(db0)

-----------------------------------------------------------------------------
(* Properties of the snapshot's scan *)

\* the store holds a staking-receive record whose primary coin is missing or is not a
\* Staking coin
BadReceiveRecord ==
    \E k \in DOMAIN db :
        /\ k[1] = "s"
        /\ ~Exists(db, CoinEntry(k[3])) \/ db[CoinEntry(k[3])].type # "Staking"

\* C38: when the loop of BatchWrite is over for an epoch block and the store holds a
\* staking-receive record without a Staking coin, the next step is the error leaving
\* BatchWrite: the store stays as it is, with no snapshot record of that block and
\* without the new tip.
C38_ScanErrorWritesNothing ==
    [][(/\ pc = "loop" /\ mapCoins = <<>> /\ pc' # pc
        /\ SnapshotTriggered(LookupBlockIndex(hashBlock).nHeight)
        /\ BadReceiveRecord)
          => /\ pc' = "failed" /\ ret' = "error"
             /\ db' = db
             /\ ~SnapshotRecordOf(db', hashBlock)
             /\ GetBestBlock(db') # hashBlock]_vars

\* the commit of an epoch block has written a chunk of its delta and was then left by the
\* scan's error
C38_Witness ==
    /\ pc = "failed" /\ ret = "error"
    /\ SnapshotTriggered(LookupBlockIndex(hashBlock).nHeight)
    /\ BadReceiveRecord
    /\ Exists(db, DB_HEAD_BLOCKS)
    /\ ~SnapshotRecordOf(db, hashBlock)
    /\ GetBestBlock(db) # hashBlock

-----------------------------------------------------------------------------
(* Properties of the staking ranking *)

\* the overlay entries that count: dirty entries of staking coins
StakingEntries == {i \in 1..Len(mapModifiedCoins) :
                      mapModifiedCoins[i].dirty /\ mapModifiedCoins[i].coin.type = "Staking"}

\* the staking total of the receiver a after the overlay is merged: the persisted
\* amounts, less those of coins the overlay spends, plus the payload amounts of the
\* overlay's live coins that are not persisted
MergedTotal(a) ==
    LET kept == {k \in DOMAIN db :
                    /\ k[1] = "s" /\ k[2] = a
                    /\ ~\E i \in StakingEntries : /\ mapModifiedCoins[i].spent
                                                  /\ mapModifiedCoins[i].outpoint = k[3]}
        added == {i \in StakingEntries :
                    /\ ~mapModifiedCoins[i].spent
                    /\ mapModifiedCoins[i].coin.receiverID = a
                    /\ ~\E k \in DOMAIN db : k[1] = "s" /\ k[3] = mapModifiedCoins[i].outpoint}
    IN  SumOf([k \in kept |-> db[k]], kept)
        + SumOf([i \in added |-> mapModifiedCoins[i].coin.amount], added)

\* the receivers with a staking total after the overlay is merged
Ranked == {a \in AccountIDs : MergedTotal(a) > 0}

\* C39: GetTopStakingAccounts(n, overlay) returns min(n, k) pairs, k the number of
\* receivers with a staking total after the overlay is merged; each pair holds a receiver
\* and its merged total, the pairs are in descending order of amount, ties in ascending
\* order of account id, and no receiver left out ranks before a returned one; a
\* receiver whose total the overlay spends down to zero is not returned.
C39_TopStakingAccounts ==
    (pc = "queried") =>
        /\ ret.outcome = "returned"
        /\ Len(ret.topN) = (IF nTop < Cardinality(Ranked) THEN nTop ELSE Cardinality(Ranked))
        /\ \A i \in 1..Len(ret.topN) :
              /\ ret.topN[i][1] \in Ranked
              /\ ret.topN[i][2] = MergedTotal(ret.topN[i][1])
        /\ \A i, j \in 1..Len(ret.topN) :
              i < j => \/ ret.topN[i][2] > ret.topN[j][2]
                       \/ ret.topN[i][2] = ret.topN[j][2] /\ ret.topN[i][1] < ret.topN[j][1]
        /\ \A a \in Ranked \ {ret.topN[i][1] : i \in 1..Len(ret.topN)} :
              \A i \in 1..Len(ret.topN) :
                  \/ ret.topN[i][2] > MergedTotal(a)
                  \/ ret.topN[i][2] = MergedTotal(a) /\ ret.topN[i][1] < a

\* two of three persisted receivers asked for; the overlay spends the only coin of one
\* receiver and creates a coin of another, whose total then equals the first's: the
\* tie is returned in the order of the account ids and the spent receiver is left out
C39_Witness ==
    /\ pc = "queried" /\ nTop = 2
    /\ Cardinality({k[2] : k \in StakingReceiveKeys(db)}) = 2
    /\ \E i \in StakingEntries :
          /\ mapModifiedCoins[i].spent
          /\ Exists(db, StakingReceiveEntry(mapModifiedCoins[i].outpoint,
                                            mapModifiedCoins[i].coin.receiverID))
          /\ MergedTotal(mapModifiedCoins[i].coin.receiverID) = 0
    /\ \E i \in StakingEntries :
          /\ ~mapModifiedCoins[i].spent
          /\ ~Exists(db, CoinEntry(mapModifiedCoins[i].outpoint))
    /\ Len(ret.topN) = 2
    /\ ret.topN[1][2] = ret.topN[2][2]

-----------------------------------------------------------------------------
(* Properties of the account cursors *)

\* the outpoints of the persisted records of the cursor's kind and account, ascending
RecordsOfCursor ==
    IterationOrder({k[3] : k \in AccountKeys(db, cursor.DBPrefix, queriedAccountID)}, FALSE)

\* the outpoints the cursor has yielded, with the one it is on
Enumerated ==
    IF cursor.outpoint = NullOutpoint THEN cursor.seen
    ELSE Append(cursor.seen, cursor.outpoint)

\* C40: what an account cursor has yielded is at every moment the beginning of the list,
\* in key order, of the outpoints of the persisted records of its kind with its account
\* id, and the whole list once the cursor is invalid: it yields no outpoint of another
\* account or kind and leaves none of its own out.
C40_AccountCursor ==
    pc = "cursor" =>
        /\ Len(Enumerated) <= Len(RecordsOfCursor)
        /\ Enumerated = SubSeq(RecordsOfCursor, 1, Len(Enumerated))
        /\ cursor.outpoint = NullOutpoint => Enumerated = RecordsOfCursor

\* the account-index cursor of account 2 has yielded its two outpoints and become invalid
\* on the first record of account 3
C40_Witness ==
    /\ pc = "cursor"
    /\ cursor.DBPrefix = "c" /\ queriedAccountID = 2
    /\ cursor.seen = <<2, 3>>
    /\ cursor.outpoint = NullOutpoint
    /\ pcursor # <<>>
    /\ Head(pcursor)[1] = CoinIndexEntry(4, 3)

====
